---- MODULE Spec2Model ----
(***************************************************************************)
(* docuLink: the document extraction pipeline.                             *)
(*                                                                         *)
(* DocumentService (the orchestrator) with its collaborators:              *)
(* ClientService / ClientRepository, DocumentRepository over a MySQL       *)
(* schema with a cascading foreign key, PDFProcessingService and            *)
(* WebScrapingService, and the pure functions of DocumentModel.            *)
(*                                                                         *)
(* Strings are run-length encoded: a text is a sequence of runs            *)
(* [c |-> character, n |-> repetitions], adjacent runs holding different   *)
(* characters.  This keeps the program's real length limits (500,          *)
(* 1,000,000, 10 MB) while the texts stay small values.                    *)
(***************************************************************************)
EXTENDS Integers, Sequences, FiniteSets, TLC

(***************************************************************************)
(* Bounds of the model.                                                    *)
(***************************************************************************)
NumClients == 1
\* The number of rows the documents table is given over a run.
MaxDocs == 1
\* The `${timestamp}_${randomSuffix}` prefix of a stored file name is one of
\* 1..MaxToken.
MaxToken == 1
\* The longest text handed to the cleaning on its own.
MaxTextLen == 5
\* How far around the content ceiling the truncated texts start, and the
\* longest tail that follows.
MaxSlack == 2

(***************************************************************************)
(* Program constants.                                                      *)
(***************************************************************************)
MaxContentLength == 1000000
MaxTitleLength == 500
MaxFileSize == 10485760
TitleFromContentMax == 100
PdfTitleLineMin == 5
PdfTitleLineMax == 200
WebTitleMin == 3
WebTitleMax == 200
FileNameMax == 100
\* The widths of the columns documents.title (VARCHAR(500)) and
\* documents.content (TEXT), in characters of one byte.
TitleColumnMax == 500
TextColumnMax == 65535
MinMainContent == 100

(***************************************************************************)
(* Run-length encoded strings.                                             *)
(* Characters: "x" a letter or digit, "sp" space, "tab", "nl" newline,     *)
(* "ctl" a control character of [\x00-\x08\x0E-\x1F\x7F], "#" a            *)
(* punctuation character, and the characters of the truncation marker.     *)
(***************************************************************************)
R(ch, k) == [c |-> ch, n |-> k]

RECURSIVE Norm(_)
Norm(t) ==
  IF t = <<>> THEN <<>>
  ELSE IF t[1].n = 0 THEN Norm(Tail(t))
  ELSE LET r == Norm(Tail(t)) IN
       IF r # <<>> /\ r[1].c = t[1].c
       THEN <<R(t[1].c, t[1].n + r[1].n)>> \o Tail(r)
       ELSE <<t[1]>> \o r

RECURSIVE StrLen(_)
StrLen(t) == IF t = <<>> THEN 0 ELSE t[1].n + StrLen(Tail(t))

\* String.prototype.substring(0, k)
RECURSIVE Substring(_, _)
Substring(t, k) ==
  IF t = <<>> \/ k <= 0 THEN <<>>
  ELSE IF t[1].n >= k THEN <<R(t[1].c, k)>>
  ELSE <<t[1]>> \o Substring(Tail(t), k - t[1].n)

\* The characters String.prototype.trim() and the regex class \s remove,
\* among the characters of the model.
IsSpace(ch) == ch \in {"sp", "tab", "nl"}

RECURSIVE TrimStart(_)
TrimStart(t) ==
  IF t = <<>> THEN <<>>
  ELSE IF IsSpace(t[1].c) THEN TrimStart(Tail(t)) ELSE t

RECURSIVE TrimEnd(_)
TrimEnd(t) ==
  IF t = <<>> THEN <<>>
  ELSE IF IsSpace(t[Len(t)].c) THEN TrimEnd(SubSeq(t, 1, Len(t) - 1)) ELSE t

Trim(t) == TrimEnd(TrimStart(t))

\* .replace(/\n{3,}/g, '\n\n')
CollapseNewlines(t) ==
  [i \in DOMAIN t |-> IF t[i].c = "nl" /\ t[i].n >= 3 THEN R("nl", 2) ELSE t[i]]

IsBlank(ch) == ch \in {"sp", "tab"}

\* The number of leading runs of t that hold spaces or tabs.
RECURSIVE BlankRuns(_)
BlankRuns(t) ==
  IF t = <<>> THEN 0
  ELSE IF IsBlank(t[1].c) THEN 1 + BlankRuns(Tail(t)) ELSE 0

\* .replace(/[ \t]{2,}/g, ' ')
RECURSIVE CollapseBlanks(_)
CollapseBlanks(t) ==
  IF t = <<>> THEN <<>>
  ELSE IF IsBlank(t[1].c)
  THEN LET k == BlankRuns(t)
           total == StrLen(SubSeq(t, 1, k))
           rest == SubSeq(t, k + 1, Len(t))
       IN (IF total >= 2 THEN <<R("sp", 1)>> ELSE <<t[1]>>) \o CollapseBlanks(rest)
  ELSE <<t[1]>> \o CollapseBlanks(Tail(t))

\* .replace(/[\x00-\x08\x0B\x0C\x0E-\x1F\x7F]/g, '')
RemoveControl(t) == Norm(SelectSeq(t, LAMBDA r : r.c # "ctl"))

\* '... [content truncated]'
TruncationMarker ==
  << R(".", 3), R("sp", 1), R("[", 1),
     R("c", 1), R("o", 1), R("n", 1), R("t", 1), R("e", 1), R("n", 1), R("t", 1),
     R("sp", 1),
     R("t", 1), R("r", 1), R("u", 1), R("n", 1), R("c", 1), R("a", 1), R("t", 1),
     R("e", 1), R("d", 1), R("]", 1) >>


\* .replace(/\s+/g, ch): every maximal run of whitespace becomes one ch.
RECURSIVE ReplaceSpaceRuns(_, _)
ReplaceSpaceRuns(t, ch) ==
  IF t = <<>> THEN <<>>
  ELSE IF IsSpace(t[1].c) THEN <<R(ch, 1)>> \o ReplaceSpaceRuns(TrimStart(t), ch)
  ELSE <<t[1]>> \o ReplaceSpaceRuns(Tail(t), ch)

\* text.split('\n'), each line trimmed, the empty ones dropped: the first
\* line left, or the empty string when there is none.
RECURSIVE FirstLineFrom(_, _)
FirstLineFrom(t, acc) ==
  IF t = <<>> THEN Trim(acc)
  ELSE IF t[1].c = "nl"
  THEN IF Trim(acc) # <<>> THEN Trim(acc) ELSE FirstLineFrom(Tail(t), <<>>)
  ELSE FirstLineFrom(Tail(t), acc \o <<t[1]>>)

FirstLine(t) == FirstLineFrom(t, <<>>)

(***************************************************************************)
(* Optional values (undefined / null) are sequences of length at most one. *)
(***************************************************************************)
None == <<>>
Some(v) == <<v>>

(***************************************************************************)
(* Errors: [type, msg, orig], orig the wrapped cause (None or Some(error)). *)
(***************************************************************************)
Err(type, msg, orig) ==
  [type |-> type, msg |-> msg, orig |-> orig, code |-> "", details |-> <<>>]
ValidationError(msg) == Err("ValidationError", msg, None)
NotFoundError(msg) == Err("NotFoundError", msg, None)
BusinessLogicError(msg) == Err("BusinessLogicError", msg, None)
ProcessingError(msg, orig) == Err("ProcessingError", msg, orig)
DatabaseError(msg, orig) == Err("DatabaseError", msg, orig)
\* What a library throws: the mysql2 driver, axios, fs, pdf-parse.
LibraryError(type, msg) == Err(type, msg, None)
\* An error of the mysql2 driver, with its code.
DriverError(code) == [Err("Error", "query failed", None) EXCEPT !.code = code]

\* The outcome of a call: a returned value or a thrown error.
Failure(e) == [ok |-> FALSE, value |-> None, error |-> Some(e)]
Success(v) == [ok |-> TRUE, value |-> Some(v), error |-> None]

(***************************************************************************)
(* DocumentModel                                                           *)
(***************************************************************************)
\* sanitizeContent that returns its argument as it is.
DocumentModel_sanitizeContent_asIs(content) == content

DocumentModel_sanitizeContent(content) == RemoveControl(content)

Ellipsis == <<R(".", 3)>>

\* 'Untitled Document'
UntitledDocument == <<R("x", 8), R("sp", 1), R("x", 8)>>

DocumentModel_extractTitleFromContent(content) ==
  LET firstLine == FirstLine(content) IN
  IF firstLine = <<>> THEN UntitledDocument
  ELSE IF StrLen(firstLine) <= TitleFromContentMax THEN firstLine
  ELSE Norm(Substring(firstLine, TitleFromContentMax - 3) \o Ellipsis)

\* filePath.trim(): a stored path starts with the upload directory, so only
\* the end of its name can hold whitespace.
PathTrim(p) == [p EXCEPT !.name = TrimEnd(p.name)]

\* sourceUrl.trim()
UrlTrim(u) == [u EXCEPT !.pad = FALSE]

createPDFDocument(clientId, title, content, filePath) ==
  [client_id |-> clientId, title |-> Trim(title), content |-> content,
   document_type |-> "pdf", source_url |-> None, file_path |-> Some(PathTrim(filePath))]

\* createWebDocument filling file_path as well as source_url.
createWebDocument_withFilePath(clientId, title, content, sourceUrl) ==
  [client_id |-> clientId, title |-> Trim(title), content |-> content,
   document_type |-> "web", source_url |-> Some(UrlTrim(sourceUrl)),
   file_path |-> Some(UrlTrim(sourceUrl))]

createWebDocument(clientId, title, content, sourceUrl) ==
  [client_id |-> clientId, title |-> Trim(title), content |-> content,
   document_type |-> "web", source_url |-> Some(UrlTrim(sourceUrl)), file_path |-> None]

Rule(violated, msg) == IF violated THEN <<msg>> ELSE <<>>

\* validateBusinessRules without the ceiling on the content.
validateBusinessRules_noContentLimit(d) ==
     Rule(d.document_type = "pdf" /\ d.file_path = None,
          "PDF documents must have a file path")
  \o Rule(d.document_type = "web" /\ d.source_url = None,
          "Web documents must have a source URL")
  \o Rule(StrLen(d.content) = 0, "Document content cannot be empty")
  \o Rule(StrLen(Trim(d.title)) = 0, "Document title cannot be empty")
  \o Rule(StrLen(d.title) > MaxTitleLength,
          "Document title exceeds maximum length of 500 characters")

\* validateBusinessRules returning at the first violated rule.
validateBusinessRules_firstOnly(d) ==
  LET all ==    Rule(d.document_type = "pdf" /\ d.file_path = None,
                     "PDF documents must have a file path")
             \o Rule(d.document_type = "web" /\ d.source_url = None,
                     "Web documents must have a source URL")
             \o Rule(StrLen(d.content) = 0, "Document content cannot be empty")
             \o Rule(StrLen(d.content) > MaxContentLength,
                     "Document content exceeds maximum length")
             \o Rule(StrLen(Trim(d.title)) = 0, "Document title cannot be empty")
             \o Rule(StrLen(d.title) > MaxTitleLength,
                     "Document title exceeds maximum length of 500 characters")
  IN IF all = <<>> THEN <<>> ELSE <<all[1]>>

validateBusinessRules(d) ==
     Rule(d.document_type = "pdf" /\ d.file_path = None,
          "PDF documents must have a file path")
  \o Rule(d.document_type = "web" /\ d.source_url = None,
          "Web documents must have a source URL")
  \o Rule(StrLen(d.content) = 0, "Document content cannot be empty")
  \o Rule(StrLen(d.content) > MaxContentLength,
          "Document content exceeds maximum length")
  \o Rule(StrLen(Trim(d.title)) = 0, "Document title cannot be empty")
  \o Rule(StrLen(d.title) > MaxTitleLength,
          "Document title exceeds maximum length of 500 characters")

toCreateData(d) ==
  [client_id |-> d.client_id, title |-> Trim(d.title), content |-> d.content,
   document_type |-> d.document_type,
   source_url |-> IF d.source_url = None THEN None
                  ELSE Some(UrlTrim(d.source_url[1])),
   file_path |-> IF d.file_path = None THEN None
                 ELSE Some(PathTrim(d.file_path[1]))]

\* A row of the documents table read back as a Document.
fromRow(row) == row


(***************************************************************************)
(* The cleaning both extractors apply, and the truncation.                 *)
(***************************************************************************)
CleanText(t) == Trim(RemoveControl(CollapseBlanks(CollapseNewlines(Norm(t)))))

\* A truncation that cuts without appending the marker.
TruncateContent_noMarker(t) ==
  IF StrLen(t) > MaxContentLength THEN Substring(t, MaxContentLength) ELSE t

TruncateContent(t) ==
  IF StrLen(t) > MaxContentLength
  THEN Norm(Substring(t, MaxContentLength) \o TruncationMarker)
  ELSE t

(***************************************************************************)
(* PDFProcessingService                                                    *)
(*                                                                         *)
(* An uploaded file: [mimetype, size, signature, parse, originalname].     *)
(* size is file.size and buffer.length; signature says whether the buffer  *)
(* starts with %PDF-; parse is what pdf-parse does with the buffer:        *)
(* [kind |-> "data", text, info, Title], [kind |-> "null"] or              *)
(* [kind |-> "throw", msg].  originalname is [stem, pdfExt].               *)
(***************************************************************************)
IsNameChar(ch) == ch \in {"x", "-", "_"} \/ IsSpace(ch)

sanitizeFileName(fileName) ==
  IF fileName.stem = <<>> /\ ~fileName.pdfExt
  THEN <<R("x", 8), R(".", 1), R("x", 3)>>     \* 'document.pdf'
  ELSE LET nameWithoutExt == fileName.stem
           kept == Norm(SelectSeq(nameWithoutExt, LAMBDA r : IsNameChar(r.c)))
           sanitized == Trim(Substring(Norm(ReplaceSpaceRuns(kept, "_")), FileNameMax))
       IN IF sanitized = <<>> THEN <<R("x", 8)>> ELSE sanitized   \* 'document'

\* The first non-empty line of the text when it has 5 to 200 characters.
PDF_extractTitleFromContent(text) ==
  LET firstLine == FirstLine(text) IN
  IF firstLine # <<>> /\ StrLen(firstLine) >= PdfTitleLineMin
                      /\ StrLen(firstLine) <= PdfTitleLineMax
  THEN Some(firstLine) ELSE None

PDF_extractTitle(pdfData, originalName) ==
  LET metaTitle == IF pdfData.info /\ pdfData.Title # None
                   THEN Trim(pdfData.Title[1]) ELSE <<>>
      fromContent == IF pdfData.text # <<>>
                     THEN PDF_extractTitleFromContent(pdfData.text) ELSE None
  IN IF StrLen(metaTitle) > 0 /\ StrLen(metaTitle) <= MaxTitleLength THEN metaTitle
     ELSE IF fromContent # None THEN fromContent[1]
     ELSE sanitizeFileName(originalName)

extractAndCleanContent(pdfData) ==
  IF pdfData.text = <<>>
  THEN Failure(ProcessingError("No text content found in PDF", None))
  ELSE LET content == CleanText(pdfData.text) IN
       IF StrLen(content) = 0
       THEN Failure(ProcessingError("PDF content is empty after processing", None))
       ELSE Success(TruncateContent(content))

hasPDFSignature(file) == file.signature

\* A catch block of extractContent that lets the library's error through.
PDF_mapError_raw(msg) == LibraryError("Error", msg)

\* The error extractContent's catch block throws for what pdf-parse threw.
PDF_mapError(msg) ==
  CASE msg = "Invalid PDF" -> ValidationError("Invalid or corrupted PDF file")
    [] msg = "Password" -> ValidationError("Password-protected PDFs are not supported")
    [] msg = "Encrypted" -> ValidationError("Encrypted PDFs are not supported")
    [] OTHER -> ProcessingError("Failed to extract content from PDF",
                                Some(LibraryError("Error", msg)))

\* validatePDF answering true for any buffer.
validatePDF_alwaysTrue(file) == TRUE

\* validatePDF: never throws.
validatePDF(file) ==
  /\ file.size # 0
  /\ file.size <= MaxFileSize
  /\ hasPDFSignature(file)
  /\ file.parse.kind = "data"
  /\ (file.parse.text # <<>> \/ file.parse.info)

\* The try block of validatePDF: what it returns, or the error pdf-parse
\* threw inside it.
validatePDF_try(file) ==
  IF file.size = 0 \/ file.size > MaxFileSize \/ ~hasPDFSignature(file)
  THEN Success(FALSE)
  ELSE IF file.parse.kind = "throw"
  THEN Failure(LibraryError("Error", file.parse.msg))
  ELSE Success(file.parse.kind = "data" /\ (file.parse.text # <<>> \/ file.parse.info))

\* The catch block of validatePDF and of validateURL: return false.
ValidateCatch(outcome) == IF outcome.ok THEN outcome ELSE Success(FALSE)

\* validatePDF(buffer) as a call: what it returns or throws.
validatePDF_call(file) == ValidateCatch(validatePDF_try(file))

\* The stored path of an upload: uploads/<timestamp>_<random>_<name>, token
\* standing for <timestamp>_<random>.
StoredPath(token, originalName) ==
  [token |-> token, name |-> sanitizeFileName(originalName)]

\* saveFile returning the path whatever the file system did.
saveFile_swallow(fs, filePath) == Success(filePath)

\* saveFile: ensureUploadDirectory and writeFile, fs being what the file
\* system does ("ok", "mkdir": the directory cannot be created, "write":
\* writeFile fails).
saveFile(fs, filePath) ==
  IF fs = "ok" THEN Success(filePath)
  ELSE Failure(ProcessingError("Failed to save PDF file", Some(LibraryError("Error", fs))))

\* extractContent up to the point where it saves the file: the failure it
\* throws, or [title, content] on the way to saveFile.
PDF_extractBeforeSave(file) ==
  IF file.size = 0 THEN Failure(ValidationError("PDF buffer is empty or invalid"))
  ELSE IF file.size > MaxFileSize
  THEN Failure(ValidationError("PDF file size exceeds maximum allowed size (10MB)"))
  ELSE IF file.parse.kind = "throw" THEN Failure(PDF_mapError(file.parse.msg))
  ELSE IF file.parse.kind = "null"
  THEN Failure(ProcessingError("Failed to parse PDF data", None))
  ELSE LET title == PDF_extractTitle(file.parse, file.originalname)
           content == extractAndCleanContent(file.parse)
       IN IF ~content.ok THEN content
          ELSE Success([title |-> title, content |-> content.value[1]])


(***************************************************************************)
(* URLs.  A URL string is [pad, prefix, scheme, host, port]: pad says       *)
(* whether whitespace surrounds it, prefix is the "https://" normalizeURL  *)
(* put in front of it (or ""), scheme is the scheme the caller wrote (""   *)
(* when none), host the sequence of dot-separated labels that follows and  *)
(* port whether the port, if one is written, is at most 65535.             *)
(***************************************************************************)
Url(pad, scheme, host) ==
  [pad |-> pad, prefix |-> "", scheme |-> scheme, host |-> host, port |-> TRUE]

ToLower(label) == IF label = "LOCALHOST" THEN "localhost" ELSE label

\* new URL(string): [ok, protocol, hostname]; ok = FALSE when it throws.
\* The parser strips surrounding whitespace, lower-cases the host and
\* refuses a port above 65535. With the prefix in front of "ftp://h" the
\* authority is "ftp:", the host "ftp".
ParseURL(u) ==
  LET lower(h) == [i \in DOMAIN h |-> ToLower(h[i])]
      bad == [ok |-> FALSE, protocol |-> "", hostname |-> <<>>]
  IN IF ~u.port THEN bad
     ELSE IF u.prefix = "https://"
     THEN IF u.scheme # "" THEN [ok |-> TRUE, protocol |-> "https", hostname |-> <<u.scheme>>]
          ELSE IF u.host = <<>> THEN bad
          ELSE [ok |-> TRUE, protocol |-> "https", hostname |-> lower(u.host)]
     ELSE IF u.scheme = "" \/ u.host = <<>> THEN bad
          ELSE [ok |-> TRUE, protocol |-> u.scheme, hostname |-> lower(u.host)]

\* The uri rule without its list of schemes.
JoiHttpUri_anyScheme(u) == ~u.pad /\ u.prefix = "" /\ u.scheme # "" /\ u.host # <<>>

\* Joi.string().uri({ scheme: ['http', 'https'] }) of processWebSchema: the
\* syntax of RFC 3986, in which a port is any run of digits.
JoiHttpUri(u) == ~u.pad /\ u.prefix = "" /\ u.scheme \in {"http", "https"} /\ u.host # <<>>

\* validateURL of models/validation.ts
Model_validateURL(u) ==
  LET p == ParseURL(u) IN p.ok /\ p.protocol \in {"http", "https"}

normalizeURL(u) ==
  LET trimmed == [u EXCEPT !.pad = FALSE] IN
  IF trimmed.prefix = "https://" \/ trimmed.scheme \in {"http", "https"}
  THEN trimmed
  ELSE [trimmed EXCEPT !.prefix = "https://"]

\* The host test with the loopback names only.
IsPrivateHost_loopbackOnly(hostname) ==
  \/ hostname = <<"localhost">>
  \/ hostname = <<"127", "0", "0", "1">>

\* hostname.startsWith('192.168.'), hostname.startsWith('10.')
IsPrivateHost(hostname) ==
  \/ hostname = <<"localhost">>
  \/ hostname = <<"127", "0", "0", "1">>
  \/ (Len(hostname) >= 3 /\ hostname[1] = "192" /\ hostname[2] = "168")
  \/ (Len(hostname) >= 2 /\ hostname[1] = "10")

isValidURLFormat(u) ==
  LET p == ParseURL(normalizeURL(u)) IN
  /\ p.ok
  /\ p.protocol \in {"http", "https"}
  /\ p.hostname # <<>>
  /\ ~IsPrivateHost(p.hostname)

(***************************************************************************)
(* WebScrapingService                                                      *)
(*                                                                         *)
(* The answer to the HEAD probe: [kind |-> "response", status, html] or    *)
(* [kind |-> "error"].  The answer to the GET: [kind |-> "response",       *)
(* data], data None when the body is no string or empty, else Some(page);  *)
(* [kind |-> "axios", code, timeout, status]; or [kind |-> "error"], an    *)
(* error that is no AxiosError.  A page, as cheerio reads it:              *)
(* [cands, contents, body]: the text under each title selector in order    *)
(* ([meta, text]), the text under each matching content selector in        *)
(* order, and the text of body.                                            *)
(***************************************************************************)
\* validateStatus: (status) => status < 500, then the content-type test.
HeadAccepts(head) == head.kind = "response" /\ head.status < 500 /\ head.html

sanitizeText(text) == Trim(Norm(ReplaceSpaceRuns(text, "sp")))

LabelText(label) == R("x", IF label \in {"localhost", "LOCALHOST"} THEN 9
                           ELSE IF label = "example" THEN 7 ELSE 3)

RECURSIVE HostText(_)
HostText(h) ==
  IF h = <<>> THEN <<>>
  ELSE IF Len(h) = 1 THEN <<LabelText(h[1])>>
  ELSE <<LabelText(h[1]), R(".", 1)>> \o HostText(Tail(h))

RECURSIVE FirstTitle(_)
FirstTitle(cands) ==
  IF cands = <<>> THEN None
  ELSE LET titleText == IF cands[1].meta THEN cands[1].text ELSE Trim(cands[1].text) IN
       IF titleText # <<>> /\ StrLen(titleText) >= WebTitleMin
                           /\ StrLen(titleText) <= WebTitleMax
       THEN Some(sanitizeText(titleText))
       ELSE FirstTitle(Tail(cands))

Web_extractTitle(page, url) ==
  LET found == FirstTitle(page.cands)
      p == ParseURL(url)
  IN IF found # None THEN found[1]
     ELSE IF p.ok
     THEN Norm(<<R("x", 7), R("sp", 1), R("x", 4), R("sp", 1)>> \o HostText(p.hostname))
     ELSE <<R("x", 3), R("sp", 1), R("x", 4), R("sp", 1), R("x", 7)>>

Web_sanitizeContent(content) ==
  IF content = <<>> THEN <<>> ELSE TruncateContent(CleanText(content))

RECURSIVE Longest(_, _)
Longest(contents, best) ==
  IF contents = <<>> THEN best
  ELSE LET text == Trim(contents[1]) IN
       Longest(Tail(contents), IF StrLen(text) > StrLen(best) THEN text ELSE best)

extractMainContent(page) ==
  LET bestContent == Longest(page.contents, <<>>)
      chosen == IF StrLen(bestContent) < MinMainContent THEN Trim(page.body)
                ELSE bestContent
      cleanContent == Web_sanitizeContent(chosen)
  IN IF cleanContent = <<>>
     THEN Failure(ProcessingError(
            "No meaningful content could be extracted from the web page", None))
     ELSE Success(cleanContent)

\* The error scrapeURL's catch block throws for what axios.get threw.
Web_mapError(get) ==
  IF get.kind = "axios" /\ get.code \in {"ENOTFOUND", "ECONNREFUSED"}
  THEN ValidationError("URL is not accessible or does not exist")
  ELSE IF get.kind = "axios" /\ (get.code = "ETIMEDOUT" \/ get.timeout)
  THEN ProcessingError("Request timeout - URL took too long to respond", None)
  ELSE IF get.kind = "axios" /\ get.status = 404
  THEN ValidationError("URL not found (404)")
  ELSE IF get.kind = "axios" /\ get.status = 403
  THEN ValidationError("Access forbidden (403) - URL blocks web scraping")
  ELSE IF get.kind = "axios" /\ get.status >= 400
  THEN ValidationError("HTTP error")
  ELSE ProcessingError("Failed to scrape web page",
                       Some(LibraryError("Error", "request failed")))

\* Whether scrapeURL gets as far as issuing the GET.
scrapeURLFetches(url) == ~(url.host = <<>> /\ url.scheme = "" /\ ~url.pad)

\* scrapeURL(url), the GET answering with get.
scrapeURL(url, get) ==
  IF ~scrapeURLFetches(url)
  THEN Failure(ValidationError("URL is required and must be a string"))
  ELSE LET normalizedUrl == normalizeURL(url) IN
       IF get.kind # "response" THEN Failure(Web_mapError(get))
       ELSE IF get.data = None
       THEN Failure(ProcessingError("Invalid response content from URL", None))
       ELSE LET page == get.data[1]
                content == extractMainContent(page)
            IN IF ~content.ok THEN content
               ELSE Success([title |-> Web_extractTitle(page, normalizedUrl),
                             content |-> content.value[1],
                             url |-> normalizedUrl])

\* Whether validateURL gets as far as issuing the HEAD probe.
validateURLProbes(url) == isValidURLFormat(url)

\* validateURL(url), the HEAD probe answering with head: never throws.
Web_validateURL(url, head) == validateURLProbes(url) /\ HeadAccepts(head)

\* The try block of validateURL: axios.head rejects on a network error and
\* on a status validateStatus refuses (500 and above).
Web_validateURL_try(url, head) ==
  IF ~isValidURLFormat(url) THEN Success(FALSE)
  ELSE IF head.kind # "response" \/ head.status >= 500
  THEN Failure(LibraryError("AxiosError", "request failed"))
  ELSE Success(head.html)

\* validateURL(url) as a call: what it returns or throws.
Web_validateURL_call(url, head) == ValidateCatch(Web_validateURL_try(url, head))


(***************************************************************************)
(* Inputs.                                                                 *)
(***************************************************************************)
ClientIds == 1..NumClients
\* 0 is no positive integer; an id of ClientIds is that of no client when
\* the clients table does not (or no longer) hold it.
ClientIdInputs == 0..NumClients

PdfData(text, info, title) ==
  [kind |-> "data", msg |-> "", text |-> text, info |-> info, Title |-> title]
PdfThrow(msg) ==
  [kind |-> "throw", msg |-> msg, text |-> <<>>, info |-> FALSE, Title |-> None]
PdfNull == [kind |-> "null", msg |-> "", text |-> <<>>, info |-> FALSE, Title |-> None]

File(mimetype, size, signature, parse, name) ==
  [mimetype |-> mimetype, size |-> size, signature |-> signature, parse |-> parse,
   originalname |-> name]

\* 'my report.pdf'
ReportPdf == [stem |-> <<R("x", 2), R("sp", 1), R("x", 6)>>, pdfExt |-> TRUE]

HelloWorld == <<R("x", 5), R("sp", 1), R("x", 5)>>
DirtyText == <<R("nl", 4), R("x", 2), R("sp", 3), R("ctl", 1), R("sp", 1), R("x", 2)>>

PdfTexts ==
  { HelloWorld, DirtyText,
    <<R("x", MaxContentLength)>>, <<R("x", MaxContentLength + 1)>>,
    <<R("sp", 3)>> }

GoodPdf(text, title, name) == File("application/pdf", 2048, TRUE, PdfData(text, TRUE, title), name)

Files ==
  { GoodPdf(t, None, ReportPdf) : t \in PdfTexts }
  \cup
  { GoodPdf(HelloWorld, Some(<<R("sp", 1), R("x", 7)>>), ReportPdf),
    GoodPdf(<<R("x", 3)>>, None, ReportPdf),
    File("application/pdf", 2048, FALSE, PdfData(HelloWorld, TRUE, None), ReportPdf),
    File("text/plain", 2048, TRUE, PdfData(HelloWorld, TRUE, None), ReportPdf),
    File("application/pdf", MaxFileSize + 1, TRUE, PdfData(HelloWorld, TRUE, None), ReportPdf),
    File("application/pdf", 0, FALSE, PdfThrow("Invalid PDF"), ReportPdf) }

\* The file of a request: None when the upload is missing.
FileInputs == {None} \cup { Some(f) : f \in Files }

Hosts ==
  { <<"example", "com">>, <<"localhost">>, <<"LOCALHOST">>,
    <<"127", "0", "0", "1">>, <<"192", "168", "1", "5">>, <<"10", "0", "0", "1">> }

Urls ==
  { Url(FALSE, "http", h) : h \in Hosts }
  \cup
  { Url(FALSE, "https", <<"example", "com">>),
    Url(FALSE, "ftp", <<"example", "com">>),
    Url(FALSE, "", <<"example", "com">>),
    Url(TRUE, "http", <<"example", "com">>),
    Url(FALSE, "", <<>>) }

\* 'http://example.com:99999'
BadPortUrl == [Url(FALSE, "http", <<"example", "com">>) EXCEPT !.port = FALSE]

\* The URLs of processWebPage requests.
WebUrls == Urls \cup {BadPortUrl}

HeadAnswers ==
  { [kind |-> "response", status |-> 200, html |-> TRUE],
    [kind |-> "response", status |-> 200, html |-> FALSE],
    [kind |-> "response", status |-> 404, html |-> TRUE],
    [kind |-> "response", status |-> 503, html |-> TRUE],
    [kind |-> "error", status |-> 0, html |-> FALSE] }

Page(cands, contents, body) == [cands |-> cands, contents |-> contents, body |-> body]
Cand(meta, text) == [meta |-> meta, text |-> text]

Pages ==
  { Page(<<Cand(FALSE, <<R("x", 4), R("sp", 1), R("x", 4)>>)>>,
         <<<<R("x", 150)>>>>, <<R("x", 150)>>),
    Page(<<Cand(FALSE, <<>>), Cand(FALSE, <<R("x", 4), R("nl", 1), R("x", 7)>>)>>,
         <<<<R("x", 20)>>>>, HelloWorld),
    Page(<<Cand(FALSE, <<R("x", 2)>>), Cand(TRUE, <<R("sp", 3)>>)>>,
         <<>>, DirtyText),
    Page(<<>>, <<<<R("x", MaxContentLength + 1)>>>>, <<R("x", MaxContentLength + 1)>>),
    Page(<<>>, <<>>, <<R("sp", 2), R("ctl", 1)>>) }

AxiosError(code, timeout, status) ==
  [kind |-> "axios", code |-> code, timeout |-> timeout, status |-> status, data |-> None]

GetAnswers ==
  { [kind |-> "response", code |-> "", timeout |-> FALSE, status |-> 200, data |-> Some(pg)]
      : pg \in Pages }
  \cup
  { [kind |-> "response", code |-> "", timeout |-> FALSE, status |-> 200, data |-> None],
    AxiosError("ENOTFOUND", FALSE, 0), AxiosError("ECONNABORTED", TRUE, 0),
    AxiosError("ERR_BAD_REQUEST", FALSE, 404), AxiosError("ERR_BAD_REQUEST", FALSE, 403),
    AxiosError("ERR_BAD_RESPONSE", FALSE, 500), AxiosError("ERR_FR_TOO_MANY_REDIRECTS", FALSE, 0),
    [kind |-> "error", code |-> "", timeout |-> FALSE, status |-> 0, data |-> None] }


(***************************************************************************)
(* State.                                                                  *)
(***************************************************************************)
VARIABLES
  clients,      \* the ids of the rows of the clients table
  documents,    \* the rows of the documents table
  nextId,       \* AUTO_INCREMENT of the documents table
  files,        \* the paths written under the upload directory
  pdfWired,     \* DocumentService was constructed with a pdfProcessingService
  webWired,     \* DocumentService was constructed with a webScrapingService
  req,          \* the document call in flight
  del,          \* the deleteClient call in flight
  other,        \* a second call in flight, overlapping with req
  emails        \* the clients table's rows as [id, email]; email is UNIQUE

vars == <<clients, documents, nextId, files, pdfWired, webWired, req, del, other, emails>>

\* A call: its operation and arguments, where it stands (pc), the operations
\* it has invoked so far (log), what the client query answered (lookup:
\* "none" before it, then "found", "missing" or "failed"), what the file
\* system did when saveFile ran (fs: "none" before it, then "ok", "mkdir" or
\* "write") and the path saveFile wrote (filePath), the record on the way to
\* the repository (doc), the id the INSERT assigned and, once done, its
\* outcome. For a request that came through DocumentController, ctl says
\* whether the controller still waits for the service ("service") or has
\* answered ("responded"); valid is what validatePDF / validateURL returned
\* to the call ("none" before it, then "true" or "false"). For deleteDocument, id is the document id and doc
\* the document found. For a function applied on its own, arg is its
\* argument and ret what it returned.
IdleReq ==
  [pc |-> "idle", op |-> "none", client_id |-> 0, file |-> None, url |-> None,
   log |-> <<>>, lookup |-> "none", fs |-> "none", filePath |-> None,
   doc |-> None, insertId |-> 0, result |-> None, ctl |-> "none", id |-> 0,
   arg |-> None, ret |-> None, valid |-> "none"]

IdleDel == [pc |-> "idle", id |-> 0, result |-> None]

Finish(r, result) == [r EXCEPT !.pc = "done", !.result = Some(result)]
Invoke(r, pc, ops) == [r EXCEPT !.pc = pc, !.log = r.log \o ops]

(***************************************************************************)
(* The database layer.                                                     *)
(***************************************************************************)
\* DatabaseUtils.query: a driver error comes out as a DatabaseError.
DatabaseUtils_query(driverError) ==
  DatabaseError("Database query failed", Some(driverError))

\* The catch block of DocumentRepository.create.
DocumentRepository_createCatch(error) ==
  IF error.type = "DatabaseError" THEN error
  ELSE IF error.code = "ER_NO_REFERENCED_ROW_2" THEN DatabaseError("Client not found", None)
  ELSE DatabaseError("Failed to create document", Some(error))

\* The INSERT of DocumentRepository.create as the server answers it: the
\* driver error it raises, or None. strict is the server's sql_mode: a value
\* wider than its column is refused in strict mode and cut to the column's
\* width otherwise.
InsertError(createData, dbOk, strict) ==
  IF ~dbOk THEN Some(DriverError("ECONNRESET"))
  ELSE IF strict /\ (\/ StrLen(createData.title) > TitleColumnMax
                     \/ StrLen(createData.content) > TextColumnMax)
  THEN Some(DriverError("ER_DATA_TOO_LONG"))
  ELSE IF createData.client_id \notin clients THEN Some(DriverError("ER_NO_REFERENCED_ROW_2"))
  ELSE None

Row(id, createData) ==
  [id |-> id, client_id |-> createData.client_id,
   title |-> Substring(createData.title, TitleColumnMax),
   content |-> Substring(createData.content, TextColumnMax),
   document_type |-> createData.document_type,
   source_url |-> createData.source_url, file_path |-> createData.file_path]

\* DocumentRepository.findById
DocumentRepository_findById(id, dbOk) ==
  IF ~dbOk
  THEN Failure(DatabaseError("Failed to fetch document",
                             Some(DatabaseUtils_query(DriverError("ECONNRESET")))))
  ELSE LET rows == { d \in documents : d.id = id } IN
       IF rows = {} THEN Success(None)
       ELSE Success(Some(fromRow(CHOOSE d \in rows : TRUE)))

\* ClientRepository.findById: whether the client row exists.
ClientRepository_findById(id, dbOk) ==
  IF ~dbOk
  THEN Failure(DatabaseError("Failed to fetch client",
                             Some(DatabaseUtils_query(DriverError("ECONNRESET")))))
  ELSE Success(id \in clients)

(***************************************************************************)
(* ClientService                                                           *)
(***************************************************************************)
\* validateClientExists without the test of the row found.
validateClientExists_noNullCheck(clientId, dbOk) ==
  IF clientId <= 0
  THEN Failure(ValidationError("Client ID must be a positive integer"))
  ELSE LET client == ClientRepository_findById(clientId, dbOk) IN
       IF ~client.ok THEN client ELSE Success(TRUE)

validateClientExists(clientId, dbOk) ==
  IF clientId <= 0
  THEN Failure(ValidationError("Client ID must be a positive integer"))
  ELSE LET client == ClientRepository_findById(clientId, dbOk) IN
       IF ~client.ok THEN client
       ELSE IF ~client.value[1] THEN Failure(NotFoundError("Client not found"))
       ELSE client


(***************************************************************************)
(* DocumentService                                                         *)
(***************************************************************************)
validateFileType(mimetype) == mimetype = "application/pdf"
validateFileSize(size) == size <= MaxFileSize

\* processPDFSchema / processWebSchema: client_id a positive integer.
JoiClientId(clientId) == clientId > 0

\* The catch block of processPDF and processWebPage.
Orchestrator_catch(error, msg) ==
  IF error.type \in {"ValidationError", "ProcessingError"} THEN error
  ELSE ProcessingError(msg, Some(error))

CatchMessage(op) ==
  IF op = "processPDF" THEN "Failed to process PDF document"
  ELSE "Failed to process web page"

\* A failure inside the try block answered by invoking the extractor again.
Thrown_retry(r, error) ==
  IF r.pc = "extract" /\ Len(r.log) < 5
  THEN Invoke(r, "extract",
              <<IF r.op = "processPDF" THEN "extractContent" ELSE "scrapeURL">>)
  ELSE Finish(r, Failure(Orchestrator_catch(error, CatchMessage(r.op))))

\* A failure thrown inside the try block of the call r.
Thrown(r, error) == Finish(r, Failure(Orchestrator_catch(error, CatchMessage(r.op))))

\* processPDF going to the client lookup without the test of the media type.
processPDF_entry_noTypeCheck(clientId, file) ==
  LET r == [IdleReq EXCEPT !.op = "processPDF", !.client_id = clientId, !.file = file] IN
  IF ~JoiClientId(clientId) THEN Finish(r, Failure(ValidationError("Validation failed")))
  ELSE IF file = None THEN Finish(r, Failure(ValidationError("PDF file is required")))
  ELSE IF ~validateFileSize(file[1].size)
  THEN Finish(r, Failure(ValidationError("File size exceeds maximum allowed size (10MB)")))
  ELSE Invoke(r, "lookup", <<"validateClientExists">>)

\* processPDF from its entry to the first await.
processPDF_entry(clientId, file) ==
  LET r == [IdleReq EXCEPT !.op = "processPDF", !.client_id = clientId, !.file = file] IN
  IF ~JoiClientId(clientId) THEN Finish(r, Failure(ValidationError("Validation failed")))
  ELSE IF file = None THEN Finish(r, Failure(ValidationError("PDF file is required")))
  ELSE IF ~validateFileType(file[1].mimetype)
  THEN Finish(r, Failure(ValidationError("Invalid file type. Only PDF files are allowed")))
  ELSE IF ~validateFileSize(file[1].size)
  THEN Finish(r, Failure(ValidationError("File size exceeds maximum allowed size (10MB)")))
  ELSE Invoke(r, "lookup", <<"validateClientExists">>)

\* processWebPage from its entry to the first await.
processWebPage_entry(clientId, url) ==
  LET r == [IdleReq EXCEPT !.op = "processWebPage", !.client_id = clientId,
                           !.url = Some(url)] IN
  IF ~JoiClientId(clientId) \/ ~JoiHttpUri(url)
  THEN Finish(r, Failure(ValidationError("Validation failed")))
  ELSE Invoke(r, "lookup", <<"validateClientExists">>)

\* processPDF_afterLookup without the test of this.pdfProcessingService.
processPDF_afterLookup_noServiceCheck(r) == Invoke(r, "validate", <<"validatePDF">>)

\* processPDF from the client found to the await of validatePDF.
processPDF_afterLookup(r) ==
  IF ~pdfWired
  THEN Finish(r, Failure(ProcessingError("PDF processing service is not available", None)))
  ELSE Invoke(r, "validate", <<"validatePDF">>)

\* processWebPage from the client found to the await of validateURL, which
\* issues its HEAD probe when the format check passes.
processWebPage_afterLookup(r) ==
  IF ~Model_validateURL(r.url[1])
  THEN Finish(r, Failure(ValidationError("Invalid URL format")))
  ELSE IF ~webWired
  THEN Finish(r, Failure(ProcessingError("Web scraping service is not available", None)))
  ELSE Invoke(r, "validate",
              <<"validateURL">> \o (IF validateURLProbes(r.url[1]) THEN <<"HEAD">> ELSE <<>>))

\* The business-rule step of processPDF and processWebPage: the messages
\* of validateBusinessRules, joined, make the ValidationError (details).
Orchestrator_checkRules(documentData) ==
  LET businessErrors == validateBusinessRules(documentData) IN
  IF Len(businessErrors) > 0
  THEN Failure([ValidationError("Business rule validation failed")
                  EXCEPT !.details = businessErrors])
  ELSE Success(documentData)

\* The steps after the extraction without the test for empty content.
Orchestrator_buildDocument_noEmptyCheck(op, clientId, extracted) ==
  LET sanitizedContent == DocumentModel_sanitizeContent(extracted.content)
      title == IF extracted.title # <<>> THEN extracted.title
               ELSE DocumentModel_extractTitleFromContent(sanitizedContent)
  IN Orchestrator_checkRules(
       IF op = "processPDF"
       THEN createPDFDocument(clientId, title, sanitizedContent, extracted.filePath)
       ELSE createWebDocument(clientId, title, sanitizedContent, extracted.url))

\* From the extractor's result to the record handed to repository.create.
Orchestrator_buildDocument(op, clientId, extracted) ==
  LET sanitizedContent == DocumentModel_sanitizeContent(extracted.content)
      title == IF extracted.title # <<>> THEN extracted.title
               ELSE DocumentModel_extractTitleFromContent(sanitizedContent)
      documentData ==
        IF op = "processPDF"
        THEN createPDFDocument(clientId, title, sanitizedContent, extracted.filePath)
        ELSE createWebDocument(clientId, title, sanitizedContent, extracted.url)
  IN IF sanitizedContent = <<>> \/ StrLen(Trim(sanitizedContent)) = 0
     THEN Failure(ProcessingError("No content could be extracted", None))
     ELSE Orchestrator_checkRules(documentData)

\* The call r with the extractor's result in hand.
AfterExtraction(r, extracted) ==
  LET built == Orchestrator_buildDocument(r.op, r.client_id, extracted) IN
  IF ~built.ok THEN Thrown(r, built.error[1])
  ELSE [Invoke(r, "insert", <<"create">>) EXCEPT !.doc = built.value]


(***************************************************************************)
(* Initial state: some clients, no documents, any wiring of the extractors. *)
(***************************************************************************)
Init ==
  /\ clients \in SUBSET ClientIds
  /\ documents = {}
  /\ nextId = 1
  /\ files = {}
  /\ pdfWired \in BOOLEAN
  /\ webWired \in BOOLEAN
  /\ req = IdleReq
  /\ del = IdleDel
  /\ other = IdleReq
  /\ emails = {}

CanCall == req.pc \in {"idle", "done"} /\ nextId <= MaxDocs

(***************************************************************************)
(* processPDF and processWebPage, one action per await.                    *)
(***************************************************************************)
CallProcessPDF(fileInputs) ==
  /\ CanCall
  /\ \E clientId \in ClientIdInputs, file \in fileInputs :
       req' = processPDF_entry(clientId, file)
  /\ UNCHANGED <<clients, documents, nextId, files, pdfWired, webWired, del, other, emails>>

CallProcessWebPage(urls) ==
  /\ CanCall
  /\ \E clientId \in ClientIdInputs, url \in urls :
       req' = processWebPage_entry(clientId, url)
  /\ UNCHANGED <<clients, documents, nextId, files, pdfWired, webWired, del, other, emails>>

\* await this.clientService.validateClientExists(value.client_id)
ClientLookup ==
  /\ req.pc = "lookup"
  /\ \E dbOk \in BOOLEAN :
       LET client == validateClientExists(req.client_id, dbOk)
           row == ClientRepository_findById(req.client_id, dbOk)
           r == [req EXCEPT !.lookup = IF ~row.ok THEN "failed"
                                       ELSE IF row.value[1] THEN "found"
                                       ELSE "missing"]
       IN req' = IF ~client.ok THEN Finish(r, Failure(client.error[1]))
                 ELSE IF r.op = "processPDF" THEN processPDF_afterLookup(r)
                 ELSE processWebPage_afterLookup(r)
  /\ UNCHANGED <<clients, documents, nextId, files, pdfWired, webWired, del, other, emails>>

\* processPDF going on to extractContent whatever validatePDF returned.
ValidatePDFStep_ungated ==
  /\ req.pc = "validate" /\ req.op = "processPDF"
  /\ req' = Invoke([req EXCEPT !.valid = IF validatePDF(req.file[1])
                                         THEN "true" ELSE "false"],
                   "extract", <<"extractContent">>)
  /\ UNCHANGED <<clients, documents, nextId, files, pdfWired, webWired, del, other, emails>>

\* await this.pdfProcessingService.validatePDF(file.buffer)
ValidatePDFStep ==
  /\ req.pc = "validate" /\ req.op = "processPDF"
  /\ req' = IF validatePDF(req.file[1])
            THEN Invoke([req EXCEPT !.valid = "true"], "extract", <<"extractContent">>)
            ELSE Thrown([req EXCEPT !.valid = "false"],
                        ValidationError("Invalid or corrupted PDF file"))
  /\ UNCHANGED <<clients, documents, nextId, files, pdfWired, webWired, del, other, emails>>

\* await this.webScrapingService.validateURL(value.url); scrapeURL, called
\* next, issues its GET unless the URL is empty.
ValidateURLStep ==
  /\ req.pc = "validate" /\ req.op = "processWebPage"
  /\ \E head \in HeadAnswers :
       req' = IF Web_validateURL(req.url[1], head)
              THEN Invoke([req EXCEPT !.valid = "true"], "extract",
                          <<"scrapeURL">> \o (IF scrapeURLFetches(req.url[1])
                                              THEN <<"GET">> ELSE <<>>))
              ELSE Thrown([req EXCEPT !.valid = "false"],
                          ValidationError("URL is not accessible or invalid"))
  /\ UNCHANGED <<clients, documents, nextId, files, pdfWired, webWired, del, other, emails>>

\* await this.pdfProcessingService.extractContent(file.buffer, file.originalname),
\* saveFile included, then the synchronous steps up to repository.create.
\* fs is what the file system does: "ok", "mkdir" (the directory is missing
\* and cannot be created) or "write" (writeFile fails).
ExtractPDFStep ==
  /\ req.pc = "extract" /\ req.op = "processPDF"
  /\ \E fs \in {"ok", "mkdir", "write"}, token \in 1..MaxToken :
       LET file == req.file[1]
           before == PDF_extractBeforeSave(file)
           filePath == StoredPath(token, file.originalname)
           saved == saveFile(fs, filePath)
       IN IF ~before.ok
          THEN /\ req' = Thrown(req, before.error[1])
               /\ UNCHANGED files
          ELSE IF ~saved.ok
          THEN /\ req' = Thrown([req EXCEPT !.fs = fs], saved.error[1])
               /\ UNCHANGED files
          ELSE /\ files' = IF fs = "ok" THEN files \cup {filePath} ELSE files
               /\ req' = AfterExtraction([req EXCEPT !.fs = fs,
                                                     !.filePath = Some(filePath)],
                            [title |-> before.value[1].title,
                             content |-> before.value[1].content,
                             filePath |-> filePath])
  /\ UNCHANGED <<clients, documents, nextId, pdfWired, webWired, del, other, emails>>

\* await this.webScrapingService.scrapeURL(value.url), then the synchronous
\* steps up to repository.create.
ScrapeStep ==
  /\ req.pc = "extract" /\ req.op = "processWebPage"
  /\ \E get \in GetAnswers :
       LET scraped == scrapeURL(req.url[1], get) IN
       req' = IF ~scraped.ok THEN Thrown(req, scraped.error[1])
              ELSE AfterExtraction(req, scraped.value[1])
  /\ UNCHANGED <<clients, documents, nextId, files, pdfWired, webWired, del, other, emails>>

\* DocumentRepository.create: the INSERT.
InsertStep ==
  /\ req.pc = "insert"
  /\ \E dbOk \in BOOLEAN, strict \in BOOLEAN :
       LET createData == toCreateData(req.doc[1])
           error == InsertError(createData, dbOk, strict)
       IN IF error # None
          THEN /\ req' = Thrown(req, DocumentRepository_createCatch(
                                       DatabaseUtils_query(error[1])))
               /\ UNCHANGED <<documents, nextId>>
          ELSE /\ documents' = documents \cup {Row(nextId, createData)}
               /\ nextId' = nextId + 1
               /\ req' = [req EXCEPT !.pc = "fetch", !.insertId = nextId]
  /\ UNCHANGED <<clients, files, pdfWired, webWired, del, other, emails>>

\* DocumentRepository.create: findById(result.insertId).
FetchStep ==
  /\ req.pc = "fetch"
  /\ \E dbOk \in BOOLEAN :
       LET found == DocumentRepository_findById(req.insertId, dbOk) IN
       req' = IF ~found.ok
              THEN Thrown(req, DocumentRepository_createCatch(found.error[1]))
              ELSE IF found.value[1] = None
              THEN Thrown(req, DocumentRepository_createCatch(
                                 DatabaseError("Failed to retrieve created document", None)))
              ELSE Finish(req, Success(found.value[1][1]))
  /\ UNCHANGED <<clients, documents, nextId, files, pdfWired, webWired, del, other, emails>>

(***************************************************************************)
(* WebScrapingService.scrapeURL called directly.                           *)
(***************************************************************************)
CallScrapeURL(urls) ==
  /\ CanCall
  /\ \E url \in urls :
       LET r == [IdleReq EXCEPT !.op = "scrapeURL", !.url = Some(url)] IN
       req' = IF scrapeURLFetches(url) THEN Invoke(r, "get", <<"GET">>)
              ELSE Finish(r, scrapeURL(url, CHOOSE g \in GetAnswers : TRUE))
  /\ UNCHANGED <<clients, documents, nextId, files, pdfWired, webWired, del, other, emails>>

ScrapeURLStep ==
  /\ req.pc = "get"
  /\ \E get \in GetAnswers : req' = Finish(req, scrapeURL(req.url[1], get))
  /\ UNCHANGED <<clients, documents, nextId, files, pdfWired, webWired, del, other, emails>>

(***************************************************************************)
(* ClientService.deleteClient, one action per await.                       *)
(***************************************************************************)
DelFinish(result) == [del EXCEPT !.pc = "done", !.result = Some(result)]

CallDeleteClient ==
  /\ del.pc \in {"idle", "done"}
  /\ \E id \in ClientIdInputs :
       del' = IF id <= 0
              THEN [pc |-> "done", id |-> id,
                    result |-> Some(Failure(ValidationError(
                                 "Client ID must be a positive integer")))]
              ELSE [pc |-> "find", id |-> id, result |-> None]
  /\ UNCHANGED <<clients, documents, nextId, files, pdfWired, webWired, req, other, emails>>

\* const existingClient = await this.clientRepository.findById(id)
DeleteFind ==
  /\ del.pc = "find"
  /\ \E dbOk \in BOOLEAN :
       LET existing == ClientRepository_findById(del.id, dbOk) IN
       del' = IF ~existing.ok THEN DelFinish(existing)
              ELSE IF ~existing.value[1] THEN DelFinish(Success(FALSE))
              ELSE [del EXCEPT !.pc = "count"]
  /\ UNCHANGED <<clients, documents, nextId, files, pdfWired, webWired, req, other, emails>>

\* deleteClient without the document-count check.
DeleteCount_noCheck ==
  /\ del.pc = "count"
  /\ \E dbOk \in BOOLEAN :
       del' = IF ~dbOk
              THEN DelFinish(Failure(DatabaseError(
                     "Failed to fetch client with document count",
                     Some(DatabaseUtils_query(DriverError("ECONNRESET"))))))
              ELSE [del EXCEPT !.pc = "delete"]
  /\ UNCHANGED <<clients, documents, nextId, files, pdfWired, webWired, req, other, emails>>

\* const clientWithCount = await this.clientRepository.findByIdWithDocumentCount(id)
DeleteCount ==
  /\ del.pc = "count"
  /\ \E dbOk \in BOOLEAN :
       LET document_count == Cardinality({ d \in documents : d.client_id = del.id }) IN
       del' = IF ~dbOk
              THEN DelFinish(Failure(DatabaseError(
                     "Failed to fetch client with document count",
                     Some(DatabaseUtils_query(DriverError("ECONNRESET"))))))
              ELSE IF del.id \in clients /\ document_count > 0
              THEN DelFinish(Failure(BusinessLogicError(
                     "Cannot delete client with associated documents")))
              ELSE [del EXCEPT !.pc = "delete"]
  /\ UNCHANGED <<clients, documents, nextId, files, pdfWired, webWired, req, other, emails>>

\* return await this.clientRepository.delete(id); the documents table
\* declares ON DELETE CASCADE on client_id.
DeleteRow ==
  /\ del.pc = "delete"
  /\ \E dbOk \in BOOLEAN :
       IF ~dbOk
       THEN /\ del' = DelFinish(Failure(DatabaseError(
                        "Failed to delete client",
                        Some(DatabaseUtils_query(DriverError("ECONNRESET"))))))
            /\ UNCHANGED <<clients, documents>>
       ELSE /\ del' = DelFinish(Success(del.id \in clients))
            /\ clients' = clients \ {del.id}
            /\ documents' = { d \in documents : d.client_id # del.id }
  /\ UNCHANGED <<nextId, files, pdfWired, webWired, req, other, emails>>

(***************************************************************************)
(* Spec: any sequence of processPDF, processWebPage and scrapeURL calls,   *)
(* over any wiring and any set of clients.                                 *)
(***************************************************************************)
Next ==
  \/ CallProcessPDF(FileInputs)
  \/ CallProcessWebPage(WebUrls)
  \/ ClientLookup
  \/ ValidatePDFStep
  \/ ValidateURLStep
  \/ ExtractPDFStep
  \/ ScrapeStep
  \/ InsertStep
  \/ FetchStep
  \/ CallScrapeURL(Urls)
  \/ ScrapeURLStep

Spec == Init /\ [][Next]_vars

(***************************************************************************)
(* SpecRace: processPDF and processWebPage calls interleaved, await by     *)
(* await, with deleteClient calls; both extractors wired in.               *)
(***************************************************************************)
RaceFiles == { Some(GoodPdf(HelloWorld, None, ReportPdf)) }
RaceUrls == { Url(FALSE, "https", <<"example", "com">>) }

InitRace ==
  /\ clients = ClientIds
  /\ documents = {}
  /\ nextId = 1
  /\ files = {}
  /\ pdfWired = TRUE
  /\ webWired = TRUE
  /\ req = IdleReq
  /\ del = IdleDel
  /\ other = IdleReq
  /\ emails = {}

NextRace ==
  \/ CallProcessPDF(RaceFiles)
  \/ CallProcessWebPage(RaceUrls)
  \/ ClientLookup
  \/ ValidatePDFStep
  \/ ValidateURLStep
  \/ ExtractPDFStep
  \/ ScrapeStep
  \/ InsertStep
  \/ FetchStep
  \/ CallDeleteClient
  \/ DeleteFind
  \/ DeleteCount
  \/ DeleteRow

SpecRace == InitRace /\ [][NextRace]_vars

(***************************************************************************)
(* SpecDelete: processPDF, processWebPage and deleteClient calls one after *)
(* another, no call starting while another is in flight.                   *)
(***************************************************************************)
NoDeleteInFlight == del.pc \in {"idle", "done"}
NoDocumentCallInFlight == req.pc \in {"idle", "done"}

NextDelete ==
  \/ NoDeleteInFlight /\ CallProcessPDF(RaceFiles)
  \/ NoDeleteInFlight /\ CallProcessWebPage(RaceUrls)
  \/ ClientLookup
  \/ ValidatePDFStep
  \/ ValidateURLStep
  \/ ExtractPDFStep
  \/ ScrapeStep
  \/ InsertStep
  \/ FetchStep
  \/ NoDocumentCallInFlight /\ CallDeleteClient
  \/ DeleteFind
  \/ DeleteCount
  \/ DeleteRow

SpecDelete == InitRace /\ [][NextDelete]_vars

(***************************************************************************)
(* DocumentController.processPDF: the upload request around the service    *)
(* call.                                                                   *)
(***************************************************************************)
\* The request up to `await this.documentService.processPDF(...)`: the file
\* must be there and FileCleanupService.ensureUploadDirectory must succeed.
ControllerProcessPDF(fileInputs) ==
  /\ CanCall /\ req.ctl # "service"
  /\ \E clientId \in ClientIdInputs, file \in fileInputs, mkdirOk \in BOOLEAN :
       LET r == [IdleReq EXCEPT !.op = "processPDF", !.client_id = clientId,
                                !.file = file]
           entered ==
             IF file = None
             THEN Finish(r, Failure(ValidationError("PDF file is required")))
             ELSE IF ~mkdirOk THEN Finish(r, Failure(LibraryError("Error", "mkdir")))
             ELSE processPDF_entry(clientId, file)
       IN req' = [entered EXCEPT !.ctl = "service"]
  /\ UNCHANGED <<clients, documents, nextId, files, pdfWired, webWired, del, other, emails>>

\* The request once the service call has returned or thrown. tempFilePath is
\* assigned after the await only, so it is undefined in the catch block
\* whenever the service threw.
ControllerRespond ==
  /\ req.ctl = "service" /\ req.pc = "done"
  /\ LET result == req.result[1]
         tempFilePath == IF result.ok THEN result.value[1].file_path ELSE None
     IN files' = IF ~result.ok /\ tempFilePath # None /\ tempFilePath[1] \in files
                 THEN files \ {tempFilePath[1]}
                 ELSE files
  /\ req' = [req EXCEPT !.ctl = "responded"]
  /\ UNCHANGED <<clients, documents, nextId, pdfWired, webWired, del, other, emails>>

(***************************************************************************)
(* DocumentService.deleteDocument, one action per await.                   *)
(***************************************************************************)
CallDeleteDocument ==
  /\ req.pc \in {"idle", "done"} /\ req.ctl # "service"
  /\ \E id \in 0..MaxDocs :
       LET r == [IdleReq EXCEPT !.op = "deleteDocument", !.id = id] IN
       req' = IF id <= 0
              THEN Finish(r, Failure(ValidationError("Document ID must be a positive integer")))
              ELSE Invoke(r, "getDocument", <<"findById">>)
  /\ UNCHANGED <<clients, documents, nextId, files, pdfWired, webWired, del, other, emails>>

\* const existingDocument = await this.getDocumentById(id)
GetDocumentStep ==
  /\ req.pc = "getDocument"
  /\ \E dbOk \in BOOLEAN :
       LET found == DocumentRepository_findById(req.id, dbOk) IN
       req' = IF ~found.ok
              THEN Finish(req, Failure(ProcessingError("Failed to fetch document",
                                                       found.error)))
              ELSE IF found.value[1] = None THEN Finish(req, Success(FALSE))
              ELSE [Invoke(req, "deleteRow", <<"delete">>) EXCEPT !.doc = found.value[1]]
  /\ UNCHANGED <<clients, documents, nextId, files, pdfWired, webWired, del, other, emails>>

\* return await this.documentRepository.delete(id): DELETE FROM documents
\* WHERE id = ?
DeleteDocumentStep ==
  /\ req.pc = "deleteRow"
  /\ \E dbOk \in BOOLEAN :
       IF ~dbOk
       THEN /\ req' = Finish(req, Failure(ProcessingError("Failed to delete document",
                        Some(DatabaseError("Failed to delete document",
                               Some(DatabaseUtils_query(DriverError("ECONNRESET"))))))))
            /\ UNCHANGED documents
       ELSE /\ req' = Finish(req, Success(\E d \in documents : d.id = req.id))
            /\ documents' = { d \in documents : d.id # req.id }
  /\ UNCHANGED <<clients, nextId, files, pdfWired, webWired, del, other, emails>>

(***************************************************************************)
(* SpecFiles: PDF uploads through the controller and deleteDocument calls, *)
(* over any wiring and any set of clients.                                 *)
(***************************************************************************)
UploadFiles ==
  { None,
    Some(GoodPdf(HelloWorld, None, ReportPdf)),
    Some(GoodPdf(<<R("x", MaxContentLength + 1)>>, None, ReportPdf)) }

NextFiles ==
  \/ ControllerProcessPDF(UploadFiles)
  \/ ClientLookup
  \/ ValidatePDFStep
  \/ ExtractPDFStep
  \/ InsertStep
  \/ FetchStep
  \/ ControllerRespond
  \/ CallDeleteDocument
  \/ GetDocumentStep
  \/ DeleteDocumentStep

SpecFiles == Init /\ [][NextFiles]_vars

(***************************************************************************)
(* SpecExtract: the operations of the two extractors called on their own,  *)
(* one action per await. cur is the call before the step, nxt after it.    *)
(***************************************************************************)
\* Buffers as the extractor may be handed them: those of Files, and buffers
\* with the PDF signature on which pdf-parse throws or returns nothing.
ExtractFiles ==
  Files \cup
  { File("application/pdf", 2048, TRUE, PdfThrow(msg), ReportPdf) :
      msg \in {"Invalid PDF", "Password", "Encrypted", "bad XRef entry"} }
  \cup { File("application/pdf", 2048, TRUE, PdfNull, ReportPdf) }

\* extractContent(buffer, originalName), up to the await of pdf-parse.
ExtractContentCall(cur, nxt, inputs) ==
  /\ cur.pc \in {"idle", "done"}
  /\ \E file \in inputs :
       LET r == [IdleReq EXCEPT !.op = "extractContent", !.file = Some(file)] IN
       nxt = IF file.size = 0 \/ file.size > MaxFileSize
             THEN Finish(r, PDF_extractBeforeSave(file))
             ELSE Invoke(r, "parse", <<"pdfParse">>)

\* pdf-parse has answered: title and content, up to the await of
\* ensureUploadDirectory in saveFile.
ExtractParse(cur, nxt) ==
  /\ cur.pc = "parse"
  /\ LET before == PDF_extractBeforeSave(cur.file[1]) IN
     nxt = IF ~before.ok THEN Finish(cur, before)
           ELSE [Invoke(cur, "mkdir", <<"ensureUploadDirectory">>)
                   EXCEPT !.ret = before.value]

\* ensureUploadDirectory has answered; the file name is generated from
\* Date.now() and Math.random() (token), up to the await of writeFile.
ExtractEnsureDir(cur, nxt, tokens) ==
  /\ cur.pc = "mkdir"
  /\ \E ok \in BOOLEAN, token \in tokens :
       LET filePath == StoredPath(token, cur.file[1].originalname) IN
       nxt = IF ~ok THEN Finish([cur EXCEPT !.fs = "mkdir"], saveFile("mkdir", filePath))
             ELSE [Invoke(cur, "write", <<"writeFile">>)
                     EXCEPT !.filePath = Some(filePath)]

\* writeFile has answered: the path is written (whatever was there before)
\* and extractContent returns.
ExtractWrite(cur, nxt) ==
  /\ cur.pc = "write"
  /\ \E ok \in BOOLEAN :
       LET fs == IF ok THEN "ok" ELSE "write"
           saved == saveFile(fs, cur.filePath[1])
       IN IF ~saved.ok
          THEN /\ nxt = Finish([cur EXCEPT !.fs = fs], saved)
               /\ UNCHANGED files
          ELSE /\ files' = files \cup {cur.filePath[1]}
               /\ nxt = Finish([cur EXCEPT !.fs = fs],
                               Success([title |-> cur.ret[1].title,
                                        content |-> cur.ret[1].content,
                                        filePath |-> saved.value[1]]))

\* validatePDF(buffer); ret is what its try block came to.
CallValidatePDF ==
  /\ req.pc \in {"idle", "done"}
  /\ \E file \in ExtractFiles :
       req' = [Finish([IdleReq EXCEPT !.op = "validatePDF", !.file = Some(file)],
                      validatePDF_call(file))
                 EXCEPT !.ret = Some(validatePDF_try(file)),
                        !.log = IF file.size = 0 \/ file.size > MaxFileSize
                                   \/ ~hasPDFSignature(file)
                                THEN <<>> ELSE <<"pdfParse">>]
  /\ UNCHANGED <<clients, documents, nextId, files, pdfWired, webWired, del, other, emails>>

\* validateURL(url), the HEAD probe answering with head; ret is what its
\* try block came to.
CallValidateURL ==
  /\ req.pc \in {"idle", "done"}
  /\ \E url \in Urls, head \in HeadAnswers :
       req' = [Finish([IdleReq EXCEPT !.op = "validateURL", !.url = Some(url)],
                      Web_validateURL_call(url, head))
                 EXCEPT !.ret = Some(Web_validateURL_try(url, head)),
                        !.log = IF validateURLProbes(url) THEN <<"HEAD">> ELSE <<>>]
  /\ UNCHANGED <<clients, documents, nextId, files, pdfWired, webWired, del, other, emails>>

CallExtractContent ==
  /\ ExtractContentCall(req, req', ExtractFiles)
  /\ UNCHANGED <<clients, documents, nextId, files, pdfWired, webWired, del, other, emails>>

ParseStep ==
  /\ ExtractParse(req, req')
  /\ UNCHANGED <<clients, documents, nextId, files, pdfWired, webWired, del, other, emails>>

EnsureDirStep(tokens) ==
  /\ ExtractEnsureDir(req, req', tokens)
  /\ UNCHANGED <<clients, documents, nextId, files, pdfWired, webWired, del, other, emails>>

WriteStep ==
  /\ ExtractWrite(req, req')
  /\ UNCHANGED <<clients, documents, nextId, pdfWired, webWired, del, other, emails>>

InitExtract ==
  /\ clients = {}
  /\ documents = {}
  /\ nextId = 1
  /\ files = {}
  /\ pdfWired = TRUE
  /\ webWired = TRUE
  /\ req = IdleReq
  /\ del = IdleDel
  /\ other = IdleReq
  /\ emails = {}

NextExtract ==
  \/ CallExtractContent
  \/ ParseStep
  \/ EnsureDirStep(1..MaxToken)
  \/ WriteStep
  \/ CallValidatePDF
  \/ CallValidateURL
  \/ CallScrapeURL(Urls)
  \/ ScrapeURLStep

SpecExtract == InitExtract /\ [][NextExtract]_vars

(***************************************************************************)
(* SpecUpload: two extractContent calls, req and other, overlapping in     *)
(* time on the one upload directory.                                       *)
(***************************************************************************)
\* The buffers uploaded: the same original file name in both calls.
UploadBuffers ==
  { GoodPdf(HelloWorld, None, ReportPdf), GoodPdf(<<R("x", 3)>>, None, ReportPdf) }

\* What Date.now() and Math.random().toString(36).substring(2, 8) come to
\* for calls in the same millisecond: the random suffix, which Math.random
\* may return more than once.
UploadTokens == 1..(MaxToken + 1)

OtherCallExtractContent ==
  /\ ExtractContentCall(other, other', UploadBuffers)
  /\ UNCHANGED <<clients, documents, nextId, files, pdfWired, webWired, req, del, emails>>

OtherParseStep ==
  /\ ExtractParse(other, other')
  /\ UNCHANGED <<clients, documents, nextId, files, pdfWired, webWired, req, del, emails>>

OtherEnsureDirStep ==
  /\ ExtractEnsureDir(other, other', UploadTokens)
  /\ UNCHANGED <<clients, documents, nextId, files, pdfWired, webWired, req, del, emails>>

OtherWriteStep ==
  /\ ExtractWrite(other, other')
  /\ UNCHANGED <<clients, documents, nextId, pdfWired, webWired, req, del, emails>>

UploadCallExtractContent ==
  /\ ExtractContentCall(req, req', UploadBuffers)
  /\ UNCHANGED <<clients, documents, nextId, files, pdfWired, webWired, del, other, emails>>

NextUpload ==
  \/ UploadCallExtractContent
  \/ ParseStep
  \/ EnsureDirStep(UploadTokens)
  \/ WriteStep
  \/ OtherCallExtractContent
  \/ OtherParseStep
  \/ OtherEnsureDirStep
  \/ OtherWriteStep

SpecUpload == InitExtract /\ [][NextUpload]_vars

(***************************************************************************)
(* SpecStub: DocumentService constructed with extractors that are any      *)
(* implementation of IPDFProcessingService / IWebScrapingService: their    *)
(* answers are arbitrary values of the result types.                       *)
(***************************************************************************)
\* Contents an extractor may return: empty, blank, control characters only,
\* mixed, and text.
StubContents ==
  { <<>>, <<R("sp", 3)>>, <<R("ctl", 2)>>, <<R("sp", 1), R("ctl", 1), R("nl", 1)>>,
    <<R("nl", 1), R("tab", 1)>>, <<R("x", 1)>>,
    <<R("sp", 1), R("x", 2), R("ctl", 1)>> }

StubTitles == { <<>>, <<R("x", 4)>> }

StubFiles == { Some(GoodPdf(HelloWorld, None, ReportPdf)) }
StubUrls == { Url(FALSE, "https", <<"example", "com">>) }

\* await validatePDF / validateURL of the stub.
StubValidateStep ==
  /\ req.pc = "validate"
  /\ \E ok \in BOOLEAN :
       req' = IF ok
              THEN Invoke([req EXCEPT !.valid = "true"], "extract",
                          <<IF req.op = "processPDF" THEN "extractContent"
                            ELSE "scrapeURL">>)
              ELSE Thrown([req EXCEPT !.valid = "false"],
                          ValidationError(IF req.op = "processPDF"
                                          THEN "Invalid or corrupted PDF file"
                                          ELSE "URL is not accessible or invalid"))
  /\ UNCHANGED <<clients, documents, nextId, files, pdfWired, webWired, del, other, emails>>

\* await extractContent / scrapeURL of the stub: it throws, or returns a
\* result (ret), and the synchronous steps up to repository.create follow.
StubExtractStep ==
  /\ req.pc = "extract"
  /\ \/ req' = Thrown(req, ProcessingError("extraction failed", None))
     \/ \E title \in StubTitles, content \in StubContents :
          LET extracted ==
                IF req.op = "processPDF"
                THEN [title |-> title, content |-> content,
                      filePath |-> StoredPath(1, req.file[1].originalname)]
                ELSE [title |-> title, content |-> content,
                      url |-> normalizeURL(req.url[1])]
          IN req' = AfterExtraction([req EXCEPT !.ret = Some(extracted)], extracted)
  /\ UNCHANGED <<clients, documents, nextId, files, pdfWired, webWired, del, other, emails>>

NextStub ==
  \/ CallProcessPDF(StubFiles)
  \/ CallProcessWebPage(StubUrls)
  \/ ClientLookup
  \/ StubValidateStep
  \/ StubExtractStep
  \/ InsertStep
  \/ FetchStep

SpecStub == Init /\ [][NextStub]_vars

(***************************************************************************)
(* SpecClients: two ClientService.createClient calls, interleaved await by *)
(* await, on a clients table whose email column is UNIQUE.                 *)
(***************************************************************************)
\* An email address: who it names, whether it was typed in upper case, and
\* whether it has the form of an address.
Email(addr, upper) == [addr |-> addr, upper |-> upper, wellFormed |-> TRUE]
EmailInputs ==
  { Email(addr, upper) : addr \in {"john@example.com", "jane@example.com"},
                         upper \in BOOLEAN }
    \cup { [addr |-> "invalid-email", upper |-> FALSE, wellFormed |-> FALSE] }
ClientInputs == [name : {"John Doe", ""}, email : EmailInputs]

\* String.prototype.toLowerCase on an address.
toLowerCase(email) == [email EXCEPT !.upper = FALSE]

\* ClientModel.toCreateData: the name trimmed, the email trimmed and in
\* lower case.
ClientModel_toCreateData(clientData) ==
  [name |-> clientData.name, email |-> toLowerCase(clientData.email)]

\* createClientSchema: name of 1..255 characters, email a valid address.
createClientSchema_error(clientData) ==
  clientData.name = "" \/ ~clientData.email.wellFormed

\* error.message.includes('Email already exists'), over the messages of the
\* errors create can throw: only the message itself contains it.
MessageIncludesEmailExists(error) == error.msg = "Email already exists"

\* The catch block of ClientRepository.create.
ClientRepository_createCatch(error) ==
  IF error.type = "DatabaseError" THEN error
  ELSE IF error.code = "ER_DUP_ENTRY" THEN DatabaseError("Email already exists", None)
  ELSE DatabaseError("Failed to create client", Some(error))

\* The catch block around create in ClientService.createClient.
ClientService_createCatch(error) ==
  IF MessageIncludesEmailExists(error)
  THEN BusinessLogicError("Email already exists")
  ELSE error

\* The INSERT of ClientRepository.create as the server answers it: the
\* driver error it raises, or None. The UNIQUE index on email refuses a
\* second row with the same address.
ClientInsertError(createData, dbOk) ==
  IF ~dbOk THEN Some(DriverError("ECONNRESET"))
  ELSE IF \E row \in emails : row.email = createData.email
  THEN Some(DriverError("ER_DUP_ENTRY"))
  ELSE None

\* AUTO_INCREMENT of the clients table.
NextClientId == IF clients = {} THEN 1
                ELSE (CHOOSE id \in clients : \A o \in clients : o <= id) + 1

\* createClient(clientData) up to its first await: the schema, then
\* emailExists is called.
CreateClientCall(cur, nxt) ==
  /\ cur.pc \in {"idle", "done"}
  /\ \E clientData \in ClientInputs :
       LET call == [IdleReq EXCEPT !.op = "createClient",
                                   !.arg = Some(clientData)] IN
       nxt = IF createClientSchema_error(clientData)
             THEN Finish(call, Failure(ValidationError("Validation failed")))
             ELSE Invoke(call, "emailExists", <<"emailExists">>)

\* const emailExists = await this.clientRepository.emailExists(value.email)
CreateClientEmailExists(cur, nxt) ==
  /\ cur.op = "createClient"
  /\ cur.pc = "emailExists"
  /\ \E dbOk \in BOOLEAN :
       LET email == toLowerCase(cur.arg[1].email)
           exists == \E row \in emails : row.email = email IN
       nxt = IF ~dbOk
             THEN Finish([cur EXCEPT !.lookup = "failed"],
                    Failure(DatabaseError("Failed to check email existence",
                      Some(DatabaseUtils_query(DriverError("ECONNRESET"))))))
             ELSE IF exists
             THEN Finish([cur EXCEPT !.lookup = "found"],
                    Failure(BusinessLogicError("Email already exists")))
             ELSE Invoke([cur EXCEPT !.lookup = "missing"], "insert", <<"create">>)

\* return await this.clientRepository.create(value): the INSERT. ret keeps
\* the driver's error, if it raised one.
CreateClientInsert(cur, nxt) ==
  /\ cur.op = "createClient"
  /\ cur.pc = "insert"
  /\ \E dbOk \in BOOLEAN :
       LET createData == ClientModel_toCreateData(cur.arg[1])
           driverError == ClientInsertError(createData, dbOk) IN
       IF driverError # None
       THEN /\ nxt = Finish([cur EXCEPT !.ret = driverError],
                       Failure(ClientService_createCatch(
                         ClientRepository_createCatch(
                           DatabaseUtils_query(driverError[1])))))
            /\ UNCHANGED <<clients, emails>>
       ELSE /\ nxt = [cur EXCEPT !.pc = "fetch", !.insertId = NextClientId]
            /\ clients' = clients \cup {NextClientId}
            /\ emails' = emails \cup {[id |-> NextClientId, email |-> createData.email]}

\* const createdClient = await this.findById(result.insertId)
CreateClientFetch(cur, nxt) ==
  /\ cur.op = "createClient"
  /\ cur.pc = "fetch"
  /\ \E dbOk \in BOOLEAN :
       LET createData == ClientModel_toCreateData(cur.arg[1])
           found == ClientRepository_findById(cur.insertId, dbOk) IN
       nxt = IF ~found.ok
             THEN Finish(cur, Failure(ClientService_createCatch(
                                ClientRepository_createCatch(found.error[1]))))
             ELSE IF ~found.value[1]
             THEN Finish(cur, Failure(ClientService_createCatch(
                    ClientRepository_createCatch(
                      DatabaseError("Failed to retrieve created client", None)))))
             ELSE Finish(cur, Success([id |-> cur.insertId, name |-> createData.name,
                                       email |-> createData.email]))

CallCreateClient ==
  /\ CreateClientCall(req, req')
  /\ UNCHANGED <<clients, documents, nextId, files, pdfWired, webWired, del, other, emails>>

EmailExistsStep ==
  /\ CreateClientEmailExists(req, req')
  /\ UNCHANGED <<clients, documents, nextId, files, pdfWired, webWired, del, other, emails>>

ClientInsertStep ==
  /\ CreateClientInsert(req, req')
  /\ UNCHANGED <<documents, nextId, files, pdfWired, webWired, del, other>>

ClientFetchStep ==
  /\ CreateClientFetch(req, req')
  /\ UNCHANGED <<clients, documents, nextId, files, pdfWired, webWired, del, other, emails>>

OtherCallCreateClient ==
  /\ CreateClientCall(other, other')
  /\ UNCHANGED <<clients, documents, nextId, files, pdfWired, webWired, req, del, emails>>

OtherEmailExistsStep ==
  /\ CreateClientEmailExists(other, other')
  /\ UNCHANGED <<clients, documents, nextId, files, pdfWired, webWired, req, del, emails>>

OtherClientInsertStep ==
  /\ CreateClientInsert(other, other')
  /\ UNCHANGED <<documents, nextId, files, pdfWired, webWired, req, del>>

OtherClientFetchStep ==
  /\ CreateClientFetch(other, other')
  /\ UNCHANGED <<clients, documents, nextId, files, pdfWired, webWired, req, del, emails>>

InitClients ==
  /\ clients = {}
  /\ documents = {}
  /\ nextId = 1
  /\ files = {}
  /\ pdfWired = TRUE
  /\ webWired = TRUE
  /\ req = IdleReq
  /\ del = IdleDel
  /\ other = IdleReq
  /\ emails = {}

NextClients ==
  \/ CallCreateClient
  \/ EmailExistsStep
  \/ ClientInsertStep
  \/ ClientFetchStep
  \/ OtherCallCreateClient
  \/ OtherEmailExistsStep
  \/ OtherClientInsertStep
  \/ OtherClientFetchStep

SpecClients == InitClients /\ [][NextClients]_vars

(***************************************************************************)
(* SpecStore: DocumentRepository.create called with a record, followed by  *)
(* findById of the id it assigned.                                         *)
(***************************************************************************)
\* Records as create may be handed them: titles and URLs with and without
\* surrounding whitespace, values up to and over the widths of the columns.
StoreRecords ==
  { [client_id |-> 1, title |-> title, content |-> content,
     document_type |-> src.type, source_url |-> src.url, file_path |-> src.path] :
      title \in { <<R("x", 1)>>, <<R("sp", 1), R("x", 1)>>,
                  <<R("x", TitleColumnMax)>>, <<R("x", TitleColumnMax + 1)>> },
      content \in { <<R("x", 1)>>, <<R("x", TextColumnMax)>>,
                    <<R("x", TextColumnMax + 1)>>, <<R("x", MaxContentLength)>> },
      src \in { [type |-> "pdf", url |-> None, path |-> Some(StoredPath(1, ReportPdf))],
                [type |-> "web", path |-> None,
                 url |-> Some(Url(FALSE, "https", <<"example", "com">>))],
                [type |-> "web", path |-> None,
                 url |-> Some(Url(TRUE, "https", <<"example", "com">>))] } }

\* DocumentRepository.create(documentData)
CallCreate ==
  /\ CanCall
  /\ \E d \in StoreRecords :
       req' = [Invoke([IdleReq EXCEPT !.op = "create"], "createInsert", <<"create">>)
                 EXCEPT !.doc = Some(d), !.arg = Some(d)]
  /\ UNCHANGED <<clients, documents, nextId, files, pdfWired, webWired, del, other, emails>>

\* DocumentRepository.create: the INSERT.
CreateInsert ==
  /\ req.pc = "createInsert"
  /\ \E dbOk \in BOOLEAN, strict \in BOOLEAN :
       LET createData == toCreateData(req.doc[1])
           error == InsertError(createData, dbOk, strict)
       IN IF error # None
          THEN /\ req' = Finish(req, Failure(DocumentRepository_createCatch(
                                               DatabaseUtils_query(error[1]))))
               /\ UNCHANGED <<documents, nextId>>
          ELSE /\ documents' = documents \cup {Row(nextId, createData)}
               /\ nextId' = nextId + 1
               /\ req' = [req EXCEPT !.pc = "createFetch", !.insertId = nextId]
  /\ UNCHANGED <<clients, files, pdfWired, webWired, del, other, emails>>

\* DocumentRepository.create: findById(result.insertId).
CreateFetch ==
  /\ req.pc = "createFetch"
  /\ \E dbOk \in BOOLEAN :
       LET found == DocumentRepository_findById(req.insertId, dbOk) IN
       req' = IF ~found.ok
              THEN Finish(req, Failure(DocumentRepository_createCatch(found.error[1])))
              ELSE IF found.value[1] = None
              THEN Finish(req, Failure(DocumentRepository_createCatch(
                         DatabaseError("Failed to retrieve created document", None))))
              ELSE Finish(req, Success(found.value[1][1]))
  /\ UNCHANGED <<clients, documents, nextId, files, pdfWired, webWired, del, other, emails>>

\* DocumentRepository.findById of the id the create before it returned; arg
\* stays the record that was passed to create, ret is the document found.
FindCreated ==
  /\ req.op = "create" /\ req.pc = "done" /\ req.result[1].ok
  /\ \E dbOk \in BOOLEAN :
       LET found == DocumentRepository_findById(req.result[1].value[1].id, dbOk) IN
       req' = [req EXCEPT !.op = "findById", !.id = req.result[1].value[1].id,
                          !.log = req.log \o <<"findById">>,
                          !.result = Some(found),
                          !.ret = IF found.ok THEN found.value[1] ELSE None]
  /\ UNCHANGED <<clients, documents, nextId, files, pdfWired, webWired, del, other, emails>>

NextStore ==
  \/ CallCreate
  \/ CreateInsert
  \/ CreateFetch
  \/ FindCreated

SpecStore == Init /\ [][NextStore]_vars

(***************************************************************************)
(* SpecText: the text functions and the business rules applied on their    *)
(* own, to every input of a bounded set.                                   *)
(***************************************************************************)
\* Every string of at most n characters over chars.
Strings(chars, n) ==
  UNION { { Norm([i \in 1..k |-> R(f[i], 1)]) : f \in [1..k -> chars] } : k \in 0..n }

\* A letter, a space, a tab, a newline and a control character.
TextChars == {"x", "sp", "tab", "nl", "ctl"}
Texts == Strings(TextChars, MaxTextLen)

\* Texts whose length lies around the content ceiling.
LongTexts ==
  { Norm(<<R("x", MaxContentLength - k)>> \o t) :
      k \in 0..MaxSlack, t \in Strings({"x", ".", "sp"}, MaxSlack) }

\* Records as validateBusinessRules may be handed them.
Records ==
  [client_id : {1},
   document_type : {"pdf", "web"},
   file_path : {None, Some(StoredPath(1, ReportPdf))},
   source_url : {None, Some(Url(FALSE, "https", <<"example", "com">>))},
   content : {<<>>, <<R("sp", 2)>>, <<R("x", 1)>>,
              <<R("x", MaxContentLength)>>, <<R("x", MaxContentLength + 1)>>},
   title : {<<>>, <<R("sp", 2)>>, <<R("x", 1)>>,
            <<R("x", MaxTitleLength)>>, <<R("x", MaxTitleLength + 1)>>}]

Applied(op, arg, ret) ==
  [IdleReq EXCEPT !.pc = "done", !.op = op, !.arg = Some(arg), !.ret = Some(ret),
                  !.result = Some(Success(ret))]

\* WebScrapingService.sanitizeContent(content)
ApplySanitizeContent ==
  /\ req.pc = "idle"
  /\ \E t \in Texts : req' = Applied("sanitizeContent", t, Web_sanitizeContent(t))
  /\ UNCHANGED <<clients, documents, nextId, files, pdfWired, webWired, del, other, emails>>

\* The truncation of extractAndCleanContent and sanitizeContent.
ApplyTruncateContent ==
  /\ req.pc = "idle"
  /\ \E t \in LongTexts : req' = Applied("truncate", t, TruncateContent(t))
  /\ UNCHANGED <<clients, documents, nextId, files, pdfWired, webWired, del, other, emails>>

\* DocumentModel.validateBusinessRules(createRequest), and the orchestrator's
\* throw that follows it.
ApplyValidateBusinessRules ==
  /\ req.pc = "idle"
  /\ \E d \in Records :
       req' = [Applied("validateBusinessRules", d, validateBusinessRules(d))
                 EXCEPT !.result = Some(Orchestrator_checkRules(d))]
  /\ UNCHANGED <<clients, documents, nextId, files, pdfWired, webWired, del, other, emails>>

InitText ==
  /\ clients = {}
  /\ documents = {}
  /\ nextId = 1
  /\ files = {}
  /\ pdfWired = TRUE
  /\ webWired = TRUE
  /\ req = IdleReq
  /\ del = IdleDel
  /\ other = IdleReq
  /\ emails = {}

NextText ==
  \/ ApplySanitizeContent
  \/ ApplyTruncateContent
  \/ ApplyValidateBusinessRules

SpecText == InitText /\ [][NextText]_vars

(***************************************************************************)
(* What a state says about the call in flight.                             *)
(***************************************************************************)
DocumentCall == req.op \in {"processPDF", "processWebPage"}
Done == req.pc = "done"
Invoked(op) == \E i \in 1..Len(req.log) : req.log[i] = op
Succeeded == Done /\ req.result[1].ok
FailedWith(type) == Done /\ ~req.result[1].ok /\ req.result[1].error[1].type = type
ExtractorOps == {"validatePDF", "extractContent", "validateURL", "scrapeURL"}
NoExtractionNoCreate == \A op \in ExtractorOps \cup {"create"} : ~Invoked(op)

\* The input passes the checks made before the first await.
WellFormed ==
  /\ JoiClientId(req.client_id)
  /\ IF req.op = "processPDF"
     THEN /\ req.file # None
          /\ validateFileType(req.file[1].mimetype)
          /\ validateFileSize(req.file[1].size)
     ELSE JoiHttpUri(req.url[1])

\* The input also passes validateURL, the check processWebPage makes
\* between the client lookup and the test of the extractor.
ValidInput ==
  /\ WellFormed
  /\ req.op = "processWebPage" => Model_validateURL(req.url[1])

\* The service was constructed without the extractor the call needs.
Unwired ==
  \/ (req.op = "processPDF" /\ ~pdfWired)
  \/ (req.op = "processWebPage" /\ ~webWired)

ExactlyOneSource(d) ==
  \/ (d.document_type = "pdf" /\ d.file_path # None /\ d.source_url = None)
  \/ (d.document_type = "web" /\ d.source_url # None /\ d.file_path = None)

C3_ExactlyOneSource ==
  /\ req.doc # None =>
       /\ ExactlyOneSource(toCreateData(req.doc[1]))
       /\ req.doc[1].document_type = (IF req.op = "processPDF" THEN "pdf" ELSE "web")
  /\ \A d \in documents : ExactlyOneSource(d)

C3_Witness ==
  /\ req.op = "processWebPage" /\ Succeeded
  /\ \E d \in documents :
       d.id = req.insertId /\ d.document_type = "web" /\ d.source_url # None

(***************************************************************************)
(* C4: every record handed to repository.create has a title of trimmed     *)
(* length 1 to 500 and a content that is not empty, not whitespace only    *)
(* and at most 1,000,000 characters long.                                  *)
(***************************************************************************)
BoundedText(d) ==
  /\ StrLen(Trim(d.title)) >= 1
  /\ StrLen(Trim(d.title)) <= MaxTitleLength
  /\ StrLen(Trim(d.content)) >= 1
  /\ StrLen(d.content) <= MaxContentLength

C4_BoundedTitleAndContent ==
  /\ req.doc # None => BoundedText(req.doc[1])
  /\ \A d \in documents : BoundedText(d)

\* A content of exactly 1,000,000 characters is on its way to the insert.
C4_Witness ==
  /\ req.pc = "insert" /\ req.doc # None
  /\ StrLen(req.doc[1].content) = MaxContentLength

(***************************************************************************)
(* C5 as stated, for processPDF: when the cleaned text of a valid PDF is   *)
(* longer than 1,000,000 characters and the client exists, the call is not *)
(* rejected: it succeeds with the first 1,000,000 characters followed by   *)
(* the truncation marker as content, unless the file system or the         *)
(* database fails (ProcessingError).                                       *)
(***************************************************************************)
OverlongPdf ==
  /\ req.op = "processPDF" /\ WellFormed /\ pdfWired /\ req.lookup = "found"
  /\ validatePDF(req.file[1])
  /\ req.file[1].parse.kind = "data"
  /\ StrLen(CleanText(req.file[1].parse.text)) > MaxContentLength

C5_Original ==
  (OverlongPdf /\ Done) =>
    IF Succeeded
    THEN req.result[1].value[1].content =
           Norm(Substring(CleanText(req.file[1].parse.text), MaxContentLength)
                \o TruncationMarker)
    ELSE FailedWith("ProcessingError")

(***************************************************************************)
(* C6 as stated: a processPDF or processWebPage call that got as far as    *)
(* client resolution and failed reaches the caller with a ValidationError, *)
(* a NotFoundError or a ProcessingError, and a ProcessingError made by     *)
(* wrapping carries the wrapped error as originalError; no other error     *)
(* type escapes.                                                           *)
(***************************************************************************)
C6_Original ==
  (DocumentCall /\ Done /\ Invoked("validateClientExists") /\ ~Succeeded) =>
    LET error == req.result[1].error[1] IN
    /\ error.type \in {"ValidationError", "NotFoundError", "ProcessingError"}
    /\ (error.type = "ProcessingError" /\ error.msg = CatchMessage(req.op)) =>
         /\ error.orig # None
         /\ error.orig[1].type \notin {"ValidationError", "ProcessingError"}

(***************************************************************************)
(* C7 as stated: when the insert of a processPDF or processWebPage call    *)
(* hits a foreign-key violation, the client having been deleted after the  *)
(* client check, the failure that reaches the caller, or the error it      *)
(* wraps, is the repository's 'Client not found', and no row was stored.   *)
(***************************************************************************)
RECURSIVE ErrorChain(_)
ErrorChain(e) == IF e.orig = None THEN <<e>> ELSE <<e>> \o ErrorChain(e.orig[1])

ForeignKeyViolation(e) ==
  LET chain == ErrorChain(e) IN chain[Len(chain)].code = "ER_NO_REFERENCED_ROW_2"

C7_Original ==
  (DocumentCall /\ Done /\ ~Succeeded
     /\ ForeignKeyViolation(req.result[1].error[1])) =>
    LET chain == ErrorChain(req.result[1].error[1]) IN
    /\ \E i \in 1..Len(chain) : chain[i].msg = "Client not found"
    /\ req.insertId = 0

(***************************************************************************)
(* C8: a processWebPage call with a URL whose scheme is neither http nor   *)
(* https fails with ValidationError, and the call issues neither the HEAD  *)
(* probe of validateURL nor the GET of scrapeURL.                          *)
(***************************************************************************)
C8_SchemeRejectedBeforeNetwork ==
  (req.op = "processWebPage" /\ req.url[1].scheme \notin {"http", "https"}) =>
    /\ FailedWith("ValidationError")
    /\ ~Invoked("HEAD") /\ ~Invoked("GET")

\* ftp://example.com, for a client that exists, with the extractor wired in.
C8_Witness ==
  /\ req.op = "processWebPage"
  /\ req.url[1] = Url(FALSE, "ftp", <<"example", "com">>)
  /\ req.client_id \in clients /\ webWired
  /\ FailedWith("ValidationError")
  /\ req.log = <<>>

(***************************************************************************)
(* C9: a processWebPage call for a client the lookup found, with the web   *)
(* extractor wired in and a URL whose host is localhost, 127.0.0.1 or      *)
(* starts with 10. or 192.168., issues no HEAD and no GET, hands no        *)
(* document to repository.create, and fails with ValidationError.          *)
(***************************************************************************)
LoopbackOrPrivate(hostname) ==
  \/ hostname \in {<<"localhost">>, <<"127", "0", "0", "1">>}
  \/ (Len(hostname) > 1 /\ hostname[1] = "10")
  \/ (Len(hostname) > 2 /\ hostname[1] = "192" /\ hostname[2] = "168")

PrivateHostCall ==
  /\ req.op = "processWebPage" /\ webWired /\ req.lookup = "found"
  /\ ParseURL(req.url[1]).ok
  /\ LoopbackOrPrivate(ParseURL(req.url[1]).hostname)

C9_PrivateHostRejected ==
  PrivateHostCall =>
    /\ ~Invoked("HEAD") /\ ~Invoked("GET") /\ ~Invoked("create")
    /\ req.doc = None
    /\ Done => FailedWith("ValidationError")

\* http://192.168.1.5 was refused by validateURL, without a probe.
C9_Witness ==
  /\ PrivateHostCall
  /\ req.url[1] = Url(FALSE, "http", <<"192", "168", "1", "5">>)
  /\ FailedWith("ValidationError")
  /\ req.log = <<"validateClientExists", "validateURL">>

(***************************************************************************)
(* C10 as stated: scrapeURL called directly with a URL whose normalised    *)
(* form does not parse as http/https with a host, or whose host is         *)
(* localhost, 127.0.0.1 or starts with 10. or 192.168., issues no GET and  *)
(* fails with ValidationError.                                             *)
(***************************************************************************)
Refused(u) ==
  LET p == ParseURL(normalizeURL(u)) IN
  \/ ~p.ok
  \/ p.protocol \notin {"http", "https"}
  \/ p.hostname = <<>>
  \/ LoopbackOrPrivate(p.hostname)

C10_Original ==
  (req.op = "scrapeURL" /\ Refused(req.url[1])) =>
    /\ ~Invoked("GET")
    /\ Done => FailedWith("ValidationError")

(***************************************************************************)
(* C11 as stated: a processPDF call with a file of 0 bytes fails with      *)
(* ValidationError whatever the client id is, hands no document to         *)
(* repository.create and writes no file.                                   *)
(***************************************************************************)
EmptyFile == req.op = "processPDF" /\ req.file # None /\ req.file[1].size = 0

C11_Original ==
  EmptyFile =>
    /\ Done => FailedWith("ValidationError")
    /\ ~Invoked("extractContent") /\ ~Invoked("create") /\ req.doc = None

(***************************************************************************)
(* C11 amended: a processPDF call with a file of 0 bytes never succeeds,   *)
(* never invokes extractContent or repository.create, and no step of it    *)
(* writes a file or a document row; it fails with ValidationError when the *)
(* client id is malformed or the media type is wrong, and when the lookup  *)
(* found the client and the PDF extractor is wired in (validatePDF refuses *)
(* the buffer); it fails with NotFoundError when the lookup finds no       *)
(* client.                                                                 *)
(***************************************************************************)
C11_EmptyPdfRejected ==
  /\ [](EmptyFile =>
         /\ ~Succeeded
         /\ ~Invoked("extractContent") /\ ~Invoked("create") /\ req.doc = None
         /\ (Done /\ ~WellFormed) => FailedWith("ValidationError")
         /\ req.lookup = "missing" => FailedWith("NotFoundError")
         /\ (Done /\ req.lookup = "found" /\ pdfWired) => FailedWith("ValidationError"))
  /\ [][(req'.op = "processPDF" /\ req'.file # None /\ req'.file[1].size = 0)
          => (files' = files /\ documents' = documents)]_vars

\* validatePDF refused the empty buffer of a client that exists.
C11_Witness ==
  /\ EmptyFile /\ req.lookup = "found" /\ pdfWired
  /\ FailedWith("ValidationError")
  /\ req.log = <<"validateClientExists", "validatePDF">>

(***************************************************************************)
(* C12: when, in a processPDF call, the text was extracted but saveFile     *)
(* could not create the directory or write the file, the call fails with   *)
(* ProcessingError and repository.create is never invoked: no record is    *)
(* built and no id assigned.                                               *)
(***************************************************************************)
C12_SaveFailureIsProcessingError ==
  (req.op = "processPDF" /\ req.fs \in {"mkdir", "write"}) =>
    /\ FailedWith("ProcessingError")
    /\ ~Invoked("create")
    /\ req.doc = None /\ req.insertId = 0

C12_Witness ==
  /\ req.op = "processPDF" /\ req.fs = "write"
  /\ PDF_extractBeforeSave(req.file[1]).ok
  /\ FailedWith("ProcessingError")
  /\ req.result[1].error[1].msg = "Failed to save PDF file"
  /\ req.log = <<"validateClientExists", "validatePDF", "extractContent">>

(***************************************************************************)
(* C13 as stated: once the controller has answered a PDF upload during     *)
(* which the extractor wrote the uploaded bytes, either the written file   *)
(* and a document record with its path both exist, or neither does.        *)
(***************************************************************************)
C13_Original ==
  (req.op = "processPDF" /\ req.ctl = "responded" /\ req.filePath # None) =>
    (req.filePath[1] \in files <=> \E d \in documents : d.file_path = req.filePath)

(***************************************************************************)
(* C14 as stated: after deleteDocument(id) has returned true for a         *)
(* document of type 'pdf', no file is left at that document's file_path.   *)
(***************************************************************************)
C14_Original ==
  (req.op = "deleteDocument" /\ Succeeded /\ req.doc # None) =>
    \/ req.result[1].value[1] = FALSE
    \/ req.doc[1].document_type # "pdf"
    \/ req.doc[1].file_path[1] \notin files

(***************************************************************************)
(* C15: no retries. Within one processPDF call validatePDF, extractContent *)
(* and repository.create, and within one processWebPage call validateURL,  *)
(* scrapeURL and repository.create, are each invoked at most once; every   *)
(* step of a call moves it forward or ends it, so the first failure of an  *)
(* operation ends the call, with a failure.                                *)
(***************************************************************************)
Count(op) == Cardinality({ i \in 1..Len(req.log) : req.log[i] = op })

Stage(pc) ==
  CASE pc = "idle" -> 0
    [] pc = "lookup" -> 1
    [] pc = "validate" -> 2
    [] pc = "extract" -> 3
    [] pc = "insert" -> 4
    [] pc = "fetch" -> 5
    [] OTHER -> 6

C15_NoRetries ==
  /\ [](DocumentCall =>
         /\ \A op \in ExtractorOps \cup {"create", "validateClientExists"} : Count(op) <= 1
         /\ Succeeded =>
              req.log \in { <<"validateClientExists", "validatePDF", "extractContent",
                               "create">>,
                             <<"validateClientExists", "validateURL", "HEAD", "scrapeURL",
                               "GET", "create">> })
  /\ [][(DocumentCall /\ ~Done /\ req' # req) =>
          Stage(req'.pc) > Stage(req.pc)]_vars

\* scrapeURL failed and the call ended there, each operation invoked once.
C15_Witness ==
  /\ req.op = "processWebPage" /\ Done /\ ~Succeeded
  /\ req.log = <<"validateClientExists", "validateURL", "HEAD", "scrapeURL", "GET">>

(***************************************************************************)
(* C16 as stated: the cleaning of the extractors is idempotent: cleaning   *)
(* a cleaned text again returns the same text, for every text over a       *)
(* letter, a space, a tab, a newline and a control character.              *)
(***************************************************************************)
C16_Original ==
  req.op = "sanitizeContent" =>
    /\ Web_sanitizeContent(req.ret[1]) = req.ret[1]
    /\ CleanText(req.ret[1]) = req.ret[1]


\* The characters of t in reverse order.
Reverse(t) == [i \in 1..Len(t) |-> t[Len(t) + 1 - i]]
\* t ends with the characters of s.
EndsWith(t, s) == Norm(Substring(Reverse(t), StrLen(s))) = Norm(Reverse(s))
\* The text the call was given is longer than the content ceiling.
TooLong == req.op = "truncate" /\ StrLen(req.arg[1]) > MaxContentLength

(***************************************************************************)
(* C17: for every text longer than the maximum length (1,000,000) the      *)
(* truncation yields a text of exactly 1,000,000 characters plus the       *)
(* length of the marker '... [content truncated]', whose first 1,000,000   *)
(* characters are those of the input and which ends with the marker; a     *)
(* text of at most 1,000,000 characters is returned unchanged. Both        *)
(* extractors return that text for a cleaned, non-empty input.             *)
(***************************************************************************)
C17_TruncationShape ==
  req.op = "truncate" =>
    LET input == req.arg[1]
        out == req.ret[1]
    IN /\ TooLong =>
            /\ StrLen(out) = MaxContentLength + StrLen(TruncationMarker)
            /\ Norm(Substring(out, MaxContentLength)) =
                 Norm(Substring(input, MaxContentLength))
            /\ EndsWith(out, TruncationMarker)
       /\ ~TooLong => out = input
       /\ (input # <<>> /\ CleanText(input) = input) =>
            /\ Web_sanitizeContent(input) = out
            /\ extractAndCleanContent(PdfData(input, FALSE, None)) = Success(out)

\* A text of 1,000,001 characters ending in a full stop was truncated.
C17_Witness ==
  /\ TooLong
  /\ StrLen(req.arg[1]) = MaxContentLength + 1
  /\ EndsWith(req.arg[1], <<R(".", 1)>>)
  /\ StrLen(req.ret[1]) = MaxContentLength + StrLen(TruncationMarker)


\* The messages of the rules a record violates.
ViolatedRules(d) ==
  { m \in { "PDF documents must have a file path",
            "Web documents must have a source URL",
            "Document content cannot be empty",
            "Document content exceeds maximum length",
            "Document title cannot be empty",
            "Document title exceeds maximum length of 500 characters" } :
      \/ m = "PDF documents must have a file path"
           /\ d.document_type = "pdf" /\ d.file_path = None
      \/ m = "Web documents must have a source URL"
           /\ d.document_type = "web" /\ d.source_url = None
      \/ m = "Document content cannot be empty" /\ d.content = <<>>
      \/ m = "Document content exceeds maximum length"
           /\ StrLen(d.content) >= MaxContentLength + 1
      \/ m = "Document title cannot be empty"
           /\ \A i \in 1..Len(d.title) : d.title[i].c \in {"sp", "tab", "nl"}
      \/ m = "Document title exceeds maximum length of 500 characters"
           /\ StrLen(d.title) >= MaxTitleLength + 1 }

(***************************************************************************)
(* C18: validateBusinessRules reports every violated rule, not only the    *)
(* first: the returned list holds one message for each rule the record     *)
(* violates (missing file_path for pdf, missing source_url for web, empty  *)
(* content, content over 1,000,000, empty title, title over 500) and none  *)
(* for a rule it satisfies; the orchestrator's ValidationError carries all *)
(* of them, and a record violating no rule passes.                         *)
(***************************************************************************)
C18_AllViolationsListed ==
  req.op = "validateBusinessRules" =>
    LET d == req.arg[1]
        msgs == req.ret[1]
        thrown == req.result[1]
    IN /\ { msgs[i] : i \in 1..Len(msgs) } = ViolatedRules(d)
       /\ Len(msgs) = Cardinality(ViolatedRules(d))
       /\ ViolatedRules(d) # {} =>
            /\ ~thrown.ok
            /\ thrown.error[1].type = "ValidationError"
            /\ thrown.error[1].msg = "Business rule validation failed"
            /\ { thrown.error[1].details[i] : i \in 1..Len(thrown.error[1].details) }
                 = ViolatedRules(d)
       /\ ViolatedRules(d) = {} => thrown = Success(d)

\* A pdf record without file_path, with empty content and a blank title was
\* checked: three messages came back.
C18_Witness ==
  /\ req.op = "validateBusinessRules"
  /\ req.arg[1].document_type = "pdf"
  /\ req.arg[1].file_path = None
  /\ req.arg[1].content = <<>>
  /\ req.arg[1].title = <<R("sp", 2)>>
  /\ Len(req.ret[1]) = 3
  /\ ~req.result[1].ok


(***************************************************************************)
(* C19 as stated: every record validateBusinessRules accepts (it returns   *)
(* the empty list) has exactly one of source_url / file_path present, the  *)
(* one its document_type names: a 'pdf' record that also carries a         *)
(* source_url, or a 'web' record that also carries a file_path, is         *)
(* rejected.                                                               *)
(***************************************************************************)
C19_Original ==
  (req.op = "validateBusinessRules" /\ req.ret[1] = <<>>) =>
    LET d == req.arg[1] IN
    /\ d.document_type = "pdf" => (d.file_path # None /\ d.source_url = None)
    /\ d.document_type = "web" => (d.source_url # None /\ d.file_path = None)


\* The fields a round trip compares.
SameFields(d, e) ==
  /\ d.client_id = e.client_id
  /\ d.title = e.title
  /\ d.content = e.content
  /\ d.document_type = e.document_type
  /\ d.source_url = e.source_url
  /\ d.file_path = e.file_path

(***************************************************************************)
(* C20 as stated: round trip: for every record passed to                   *)
(* DocumentRepository.create, the document a following findById of the     *)
(* assigned id returns has the same client_id, title, content,             *)
(* document_type, source_url and file_path as the record passed in.        *)
(***************************************************************************)
C20_Original ==
  (req.op = "findById" /\ req.ret # None) => SameFields(req.ret[1], req.arg[1])


\* The kinds of failure an extractor may answer with.
ExtractorFailures == {"ValidationError", "ProcessingError"}
\* A call of an extractor operation has returned or thrown.
Returned(op) == req.op = op /\ req.pc = "done"

(***************************************************************************)
(* C21: no raw library, filesystem or network exception escapes an         *)
(* extractor: every failing exit of extractContent and of scrapeURL is a   *)
(* ValidationError or a ProcessingError, and validatePDF and validateURL   *)
(* never throw: they return a boolean, false whenever something failed     *)
(* inside them; it is the boolean processPDF / processWebPage act on.      *)
(***************************************************************************)
C21_NoRawErrorEscapes ==
  /\ \A op \in {"extractContent", "scrapeURL"} :
       (Returned(op) /\ ~req.result[1].ok) =>
          req.result[1].error[1].type \in ExtractorFailures
  /\ \A op \in {"validatePDF", "validateURL"} :
       Returned(op) =>
          /\ req.result[1].ok
          /\ req.result[1].value[1] \in BOOLEAN
          /\ ~req.ret[1].ok => req.result[1].value[1] = FALSE
  /\ Returned("validatePDF") =>
       req.result[1].value[1] = validatePDF(req.file[1])
  /\ Returned("validateURL") =>
       \A head \in HeadAnswers :
          Web_validateURL_call(req.url[1], head) =
            Success(Web_validateURL(req.url[1], head))

\* pdf-parse threw an error extractContent does not recognise, and the call
\* failed with a ProcessingError that carries it.
C21_Witness ==
  /\ Returned("extractContent")
  /\ req.file[1].parse.kind = "throw"
  /\ req.file[1].parse.msg = "bad XRef entry"
  /\ ~req.result[1].ok
  /\ req.result[1].error[1].type = "ProcessingError"
  /\ req.result[1].error[1].orig # None


\* Both calls have generated their file name and are about to write.
BothWriting ==
  /\ req.op = "extractContent" /\ other.op = "extractContent"
  /\ req.pc = "write" /\ other.pc = "write"

(***************************************************************************)
(* C22 as stated: concurrent writes to the upload directory are safe       *)
(* without locking: two extractContent calls that overlap in time,         *)
(* including calls with the same original file name in the same            *)
(* millisecond, never write to the same storage path.                      *)
(***************************************************************************)
C22_Original == BothWriting => req.filePath # other.filePath


\* The request is one the entry checks refuse: client_id no positive
\* integer; no file, a media type other than application/pdf or more than
\* 10 MB; a URL that is no http/https URI.
RefusedAtEntry ==
  \/ req.client_id <= 0
  \/ /\ req.op = "processPDF"
     /\ \/ req.file = None
        \/ req.file[1].mimetype # "application/pdf"
        \/ req.file[1].size >= MaxFileSize + 1
  \/ /\ req.op = "processWebPage"
     /\ \/ req.url[1].pad
        \/ req.url[1].scheme \notin {"http", "https"}
        \/ req.url[1].host = <<>>

\* The URL of the request is no syntactically valid http/https URL: the
\* entry checks refuse it, or its port is out of range.
InvalidWebUrl ==
  /\ req.op = "processWebPage"
  /\ \/ req.url[1].pad
     \/ req.url[1].scheme \notin {"http", "https"}
     \/ req.url[1].host = <<>>
     \/ ~req.url[1].port

RejectedUntouched ==
  /\ FailedWith("ValidationError")
  /\ req.log = <<>>
  /\ req.lookup = "none"

(***************************************************************************)
(* C23 as stated: input-shape validation precedes client resolution: a     *)
(* processPDF call with a client_id that is no positive integer, no file,  *)
(* a media type other than application/pdf or a size above 10 MB, or a     *)
(* processWebPage call with an invalid client_id or a URL that is no       *)
(* syntactically valid http/https URL, fails with ValidationError and the  *)
(* client lookup, the extractors and repository.create are never invoked.  *)
(***************************************************************************)
C23_Original ==
  (DocumentCall /\ (RefusedAtEntry \/ InvalidWebUrl)) => RejectedUntouched

(***************************************************************************)
(* C23: a processPDF call with a client_id that is no positive integer, no *)
(* file, a media type other than application/pdf or a size above 10 MB,    *)
(* or a processWebPage call with an invalid client_id or a URL the         *)
(* schema's uri rule refuses, fails with ValidationError and the client    *)
(* lookup, the extractors and repository.create are never invoked. A URL   *)
(* the schema accepts and new URL() refuses (port out of range) is         *)
(* refused only after the client lookup: the call never succeeds, invokes  *)
(* no extractor and no repository.create, fails with ValidationError when  *)
(* the lookup finds the client and with NotFoundError when it finds none.  *)
(***************************************************************************)
C23_ShapeCheckedBeforeLookup ==
  /\ (DocumentCall /\ RefusedAtEntry) => RejectedUntouched
  /\ (DocumentCall /\ ~RefusedAtEntry /\ InvalidWebUrl) =>
       /\ ~Succeeded
       /\ NoExtractionNoCreate
       /\ (Done /\ req.lookup = "found") => FailedWith("ValidationError")
       /\ (Done /\ req.lookup = "missing") => FailedWith("NotFoundError")

\* The URL with the port out of range passed the entry checks, the lookup
\* found the client and the call was refused with ValidationError.
C23_Witness ==
  /\ req.op = "processWebPage" /\ req.client_id > 0
  /\ ~RefusedAtEntry /\ ~req.url[1].port
  /\ Done /\ req.lookup = "found"
  /\ FailedWith("ValidationError")
  /\ req.log = <<"validateClientExists">>


\* The place of op in the log of the call, 0 when it was not invoked.
Position(op) ==
  IF Invoked(op) THEN CHOOSE i \in 1..Len(req.log) : req.log[i] = op ELSE 0
\* The validation and the extraction of the call.
ValidationOp == IF req.op = "processPDF" THEN "validatePDF" ELSE "validateURL"
ExtractionOp == IF req.op = "processPDF" THEN "extractContent" ELSE "scrapeURL"

(***************************************************************************)
(* C24: validation gates extraction: in processPDF extractContent is       *)
(* invoked only after validatePDF has returned true in the same call, in   *)
(* processWebPage scrapeURL only after validateURL has returned true; when *)
(* the validation returns false the call fails with ValidationError and    *)
(* neither the extraction nor repository.create happens.                   *)
(***************************************************************************)
C24_ValidationGatesExtraction ==
  DocumentCall =>
    /\ (Invoked(ExtractionOp) \/ Invoked("create")) =>
         /\ req.valid = "true"
         /\ Position(ValidationOp) >= 1
         /\ Position(ValidationOp) <= Position(ExtractionOp) - 1
    /\ req.valid = "false" =>
         /\ FailedWith("ValidationError")
         /\ ~Invoked("extractContent") /\ ~Invoked("scrapeURL")
         /\ ~Invoked("create")
         /\ req.filePath = None /\ req.doc = None

\* validateURL answered false for a well-formed public URL (the HEAD probe
\* failed) and the call ended without scraping.
C24_Witness ==
  /\ req.op = "processWebPage" /\ Done
  /\ req.valid = "false"
  /\ isValidURLFormat(req.url[1])
  /\ req.log = <<"validateClientExists", "validateURL", "HEAD">>


\* The extractor returned a content made of control characters and
\* whitespace only (or of nothing).
NoTextReturned ==
  /\ DocumentCall /\ req.ret # None
  /\ \A i \in 1..Len(req.ret[1].content) :
        req.ret[1].content[i].c \in {"ctl", "sp", "tab", "nl"}

(***************************************************************************)
(* C25: when the extractor returns content that is empty or                *)
(* whitespace-only after control characters are removed, processPDF /      *)
(* processWebPage fails with ProcessingError and repository.create is not  *)
(* invoked, so no document with empty or blank content is ever stored.     *)
(***************************************************************************)
C25_EmptyContentIsProcessingError ==
  /\ NoTextReturned =>
       /\ FailedWith("ProcessingError")
       /\ ~Invoked("create")
       /\ req.doc = None
  /\ \A d \in documents :
       \E i \in 1..Len(d.content) : d.content[i].c \notin {"ctl", "sp", "tab", "nl"}

\* The extractor returned a space, a control character and a newline, and
\* the call failed.
C25_Witness ==
  /\ NoTextReturned
  /\ req.ret[1].content = <<R("sp", 1), R("ctl", 1), R("nl", 1)>>
  /\ FailedWith("ProcessingError")


\* 'Content from {hostname}' for the URL of the call.
HostnameFallback ==
  Norm(<<R("x", 7), R("sp", 1), R("x", 4), R("sp", 1)>>
       \o HostText(ParseURL(normalizeURL(req.url[1])).hostname))

(***************************************************************************)
(* C26 as stated: web title extraction accepts the first candidate whose   *)
(* trimmed text has 3 to 200 characters and otherwise returns 'Content     *)
(* from {hostname}'; hence the title scrapeURL returns is never empty and, *)
(* unless it is the hostname fallback, its trimmed length is between 3     *)
(* and 200.                                                                *)
(***************************************************************************)
C26_Original ==
  (req.op = "scrapeURL" /\ Succeeded) =>
    LET title == req.result[1].value[1].title IN
    /\ title # <<>>
    /\ \/ title = HostnameFallback
       \/ /\ StrLen(Trim(title)) >= WebTitleMin
          /\ StrLen(Trim(title)) <= WebTitleMax


(***************************************************************************)
(* C27: createClient never creates a second client with an email already   *)
(* in use, and a call that met the conflict, at emailExists or at the      *)
(* INSERT, failed with BusinessLogicError('Email already exists').         *)
(***************************************************************************)
CreateCalls == { r \in {req, other} : r.op = "createClient" /\ r.pc = "done" }
MetConflict(r) ==
  \/ r.lookup = "found"
  \/ r.ret # None /\ r.ret[1].code = "ER_DUP_ENTRY"
EmailsUnique ==
  \A r1 \in emails : \A r2 \in emails : r1.email = r2.email => r1.id = r2.id
C27_Original ==
  /\ EmailsUnique
  /\ \A r \in CreateCalls :
       MetConflict(r) =>
         r.result[1] = Failure(BusinessLogicError("Email already exists"))


(***************************************************************************)
(* C28: a deleteClient call that runs on its own and whose queries are     *)
(* answered ends in one of three ways. On a client with documents it fails *)
(* with BusinessLogicError without reaching the repository's delete, and   *)
(* the client and its documents stay; on a missing client it returns false *)
(* without reaching delete; it returns true exactly when the client        *)
(* existed with no documents and this step removed it. Whatever the        *)
(* outcome, only a call that returns true changes the tables.              *)
(***************************************************************************)
DeleteFinishes == del.pc \notin {"idle", "done"} /\ del'.pc = "done"
ReferencesHold == \A d \in documents : d.client_id \in clients
ClientRemoved == clients' # clients
C29_Original ==
  /\ []ReferencesHold
  /\ [][ClientRemoved =>
           /\ \A d \in documents : d.client_id \in clients'
           /\ documents \subseteq documents']_vars


(***************************************************************************)
(* C30: after any sequence of processPDF and processWebPage calls, no      *)
(* stored document's content contains a control character of the ranges    *)
(* sanitizeContent removes, whatever text the extractor returned; newlines *)
(* and tabs may remain.                                                    *)
(***************************************************************************)
HasControl(content) == \E i \in 1..Len(content) : content[i].c = "ctl"
C30_NoControlCharacterStored ==
  \A d \in documents : ~HasControl(d.content)

\* The extractor returned text with a control character in it and the call
\* stored a document.
C30_Witness ==
  /\ req.op \in {"processPDF", "processWebPage"}
  /\ req.pc = "done"
  /\ req.result[1].ok
  /\ req.ret # None
  /\ HasControl(req.ret[1].content)
  /\ \E d \in documents : d.id = req.insertId /\ d.content = <<R("sp", 1), R("x", 2)>>

====
